---- MODULE Spec2Model ----
(***************************************************************************)
(* Model of the JobSpider Boss crawl engine (src/spider/jobspiderboss.py)  *)
(* with its drivers (src/main.py), the proxy pool (src/spider/utility.py)  *)
(* and the storage gateway (src/utility/sql.py).                           *)
(*                                                                         *)
(* One run of the program is either crawl(urls) (mode "crawl") or          *)
(* joboss_spider() (mode "discover"); Spec is about these.  SpecFrontier   *)
(* is about the frontier programs build_url_pool() and crawl_single(),     *)
(* SpecFrontierStore about the frontier functions called in any order,     *)
(* SpecParse and SpecChunked about one function each.                      *)
(* A fetch unit is one coroutine:                                          *)
(* _crwal_single_page_by_url(url) or update_page(keyword, area_code).      *)
(* Every action is the code between two suspension points (await) of one   *)
(* coroutine, so the interleavings of the model are those of the asyncio   *)
(* event loop.  The site, the browser and the proxy service are the        *)
(* environment: their answers are chosen with \E.                          *)
(***************************************************************************)
EXTENDS Integers, Sequences, FiniteSets, TLC

(* ---------------- bounds of the model ---------------- *)
MaxUrls == 5
MaxAreas == 2
MaxRuns == 2
MaxListLen == 5
MaxChunkSize == 3
MaxTextLen == 2
MaxPoolPages == 3
MaxDepth == 3
MaxGets == 3
MaxBatch == 2
MaxItems == 2
MaxFairUrls == 3
MaxFairAreas == 3

(* ---------------- program constants ---------------- *)
\* utility.constant.MAX_ASY_NUM (imported by main.py line 11, set in
\* utility/constant.py); the value 2 is an assumption
MAX_ASY_NUM == 2
MAX_RETRIES == 3
CRAWL_CHUNK == 2
PROXY_NUM == 1

Min(a, b) == IF a < b THEN a ELSE b
Max(a, b) == IF a > b THEN a ELSE b

MaxTasks == Max(MaxUrls, MaxAreas)
AllUnits == 1..MaxTasks

KEYWORD == "kw"
AreaCodes == {"101", "102"}

(* ---------------- the environment's answers ---------------- *)
\* what one navigation can end in (_get_cur_page, lines 162-190)
NavOutcomes == {"ok", "ban_phrase", "timeout", "nav_error", "no_list"}

\* markup below a listing card.  A text is the sequence of its characters;
\* an element that find() looks for is there with its text, or missing; a
\* list (ul) is there with the texts of its li elements, or missing
NoElem == [present |-> FALSE, text |-> << >>]
Elem(t) == [present |-> TRUE, text |-> t]
NoList == [present |-> FALSE, items |-> << >>]
List(ts) == [present |-> TRUE, items |-> ts]

\* the fullwidth comma U+FF0C
FullwidthComma == "U+FF0C"

\* a listing card (li.job-card-wrapper): the spans job-name, job-area and
\* salary anywhere below it, and the blocks div."job-info clearfix" (with
\* its ul.tag-list), div.company-info (with its h3.company-name and every li
\* below it) and div."job-card-footer clearfix" (with its first ul and its
\* div.info-desc)
CardMarkup(name, area, salary, info, company, footer) ==
  [job_name |-> name, job_area |-> area, salary |-> salary,
   job_info |-> info, company_info |-> company, footer |-> footer]

NoJobInfo == [present |-> FALSE, tag_list |-> NoList]
NoCompanyInfo == [present |-> FALSE, company_name |-> NoElem, items |-> << >>]
NoFooter == [present |-> FALSE, ul |-> NoList, info_desc |-> NoElem]

\* a card with every sub-element, empty lists, and the given job name and
\* footer text
Card(name, other) ==
  CardMarkup(Elem(<<name>>), Elem(<<"b", "j">>), Elem(<<"1", "0", "k">>),
             [present |-> TRUE, tag_list |-> List(<< >>)],
             [present |-> TRUE, company_name |-> Elem(<<"c", "o">>),
              items |-> << >>],
             [present |-> TRUE, ul |-> List(<< >>),
              info_desc |-> Elem(<<other>>)])

\* CardA2 is the listing of CardA with another footer text
CardA == Card("A", "x")
CardA2 == Card("A", "y")
CardB == Card("B", "x")

\* listing cards of a clean result page
CardLists == {<< >>, <<CardA>>, <<CardA2, CardB>>}

\* what the storage engine does to one statement: "locked" stands for every
\* sqlite3.Error that is not an IntegrityError (locked database, I/O error)
StorageFaults == {"none", "locked"}

\* text of the pagination control (div.options-pages) of a result page
PagerTexts == {<<"1", "0">>, <<"1", "2">>, <<"1", " ">>, << >>}

\* a page's markup: its listing cards, and its pagination control if it has one
NoDom == [cards |-> << >>, hasPager |-> FALSE, pager |-> << >>]
CrawlDoms == {[cards |-> c, hasPager |-> FALSE, pager |-> << >>] : c \in CardLists}
DiscoverDoms ==
  {NoDom} \cup {[cards |-> << >>, hasPager |-> TRUE, pager |-> t] : t \in PagerTexts}

\* a local variable that is not bound yet / no context object
Unbound == [bound |-> FALSE, dom |-> NoDom]
NotCalled == [called |-> FALSE, jobs |-> << >>, fault |-> "none"]
NoCtx == [att |-> 0, proxy |-> <<0, 0, 0, 0>>]

\* a URL is the record of what its query string carries; EmptyUrl is ""
EmptyUrl == [query |-> "", city |-> "", page |-> 0, fillers |-> {}]
NoCall == [op |-> "none", url |-> EmptyUrl, exc |-> "none"]

\* the token file .secret: "secret_token|expire|_time|secret_id"
NoSecret == [exists |-> FALSE, token |-> "", expire |-> 0, time |-> 0, id |-> ""]

\* no Proxy object of spider/utility.py has been built
NoProxy == [pc |-> "none", id |-> "", now |-> 0, secret |-> NoSecret,
            stack |-> << >>, token |-> "", exc |-> "none", handed |-> << >>]

\* Fields of a unit that are not locals of the coroutine but a record of what
\* happened to it: banned (the attempts the site answered with a ban, a
\* timeout or an error), served (the markup of the clean answer), leases (the
\* endpoints Proxy.get returned to it), inserted (the argument of
\* _insert_job_to_db), result and exc (how it ended).
VARIABLES
  mode,        \* "crawl" or "discover": the entry point of this run
  tasks,       \* crawl: the urls argument; discover: the rows of the area table
  run,         \* number of the current run of joboss_spider
  drv,         \* position of the driver coroutine (crawl / joboss_spider)
  chunk_size,  \* the chunk_size argument of _chunked_tasks
  chunks,      \* crawl: the chunks _chunked_tasks yields
  ci,          \* crawl: index of the chunk being gathered
  areas,       \* discover: the units whose area is still in the list
  chunk,       \* the units handed to the current asyncio.gather
  unit,        \* per unit: the coroutine's position and locals
  proxies,     \* Proxy.proxies of each JobSpiderBoss instance
  jobTab,      \* table joboss: the set of its rows
  maxPageTab,  \* table joboss_max_page: the set of its rows
  urlPool,     \* table joboss_url_pool (the frontier): the set of its rows
  call,        \* the last frontier statement of the process and its outcome
  kdlProxy     \* a Proxy object of spider/utility.py in remote mode

vars == <<mode, tasks, run, drv, chunk_size, chunks, ci, areas, chunk, unit,
          proxies, jobTab, maxPageTab, urlPool, call, kdlProxy>>

(* ---------------- pure helpers, as the code computes them ---------------- *)

\* variant: the range stops before a last, shorter step
RangeWholeSteps(start, stop, step) ==
  [k \in 1..(stop \div step) |-> start + (k - 1) * step]

\* list(range(start, stop, step)) for step > 0
RECURSIVE Range(_, _, _)
Range(start, stop, step) ==
  IF start >= stop THEN << >>
  ELSE <<start>> \o Range(start + step, stop, step)

\* tasks[i : i + chunk_size] with 0-based i (Python slice, clipped at the end)
Slice(ts, i, n) ==
  [k \in 1..(Min(i + n, Len(ts)) - i) |-> ts[i + k]]

\* JobSpiderBoss._chunked_tasks: the list of the chunks the generator yields
_chunked_tasks(ts, size) ==
  LET starts == Range(0, Len(ts), size)
  IN  [k \in 1..Len(starts) |-> Slice(ts, starts[k], size)]

\* variant: the whole list is one chunk
ChunkSizeAll(n) == n

\* crawl line 149: the chunk size handed to _chunked_tasks
ChunkSizeOf(n) == Min(CRAWL_CHUNK, n)

SeqToSet(s) == {s[i] : i \in DOMAIN s}

\* variant: the loop bound is off by one
RangeHasNextInclusive(a) == a <= MAX_RETRIES

\* for _ in range(MAX_RETRIES): is there another iteration after `a` attempts
RangeHasNext(a) == a < MAX_RETRIES

\* variant: a timeout is not caught and counts as a clean page
GetCurPageTimeoutClean(o) ==
  CASE o = "nav_error"  -> TRUE
    [] o = "ban_phrase" -> TRUE
    [] OTHER            -> FALSE

\* _get_cur_page: the banned flag it returns for a navigation outcome:
\* goto times out or fails (except clauses), _check_ip_banned finds a phrase,
\* job_result.wait_for times out on a page without the job list
_get_cur_page(o) ==
  CASE o = "timeout"    -> TRUE
    [] o = "nav_error"  -> TRUE
    [] o = "ban_phrase" -> TRUE
    [] o = "no_list"    -> TRUE
    [] OTHER            -> FALSE

\* _managed_page lines 87-90: what the scope yields ("none" is Python None)
ManagedPageYield(banned) == IF banned THEN "none" ELSE "page"


\* the JobSpiderBoss instance (and so the Proxy pool) a unit uses:
\* crawl() runs all units on one spider, update_page builds one per unit
PoolOf(m, u) == IF m = "crawl" THEN 0 ELSE u

DigitChars == {"0", "1", "2", "3", "4", "5", "6", "7", "8", "9"}
DigitVal(c) ==
  CASE c = "0" -> 0 [] c = "1" -> 1 [] c = "2" -> 2 [] c = "3" -> 3
    [] c = "4" -> 4 [] c = "5" -> 5 [] c = "6" -> 6 [] c = "7" -> 7
    [] c = "8" -> 8 [] c = "9" -> 9

\* variant: a page without the control counts as a single page
ParseMaxPageSingle(dom) ==
  IF ~dom.hasPager \/ Len(dom.pager) = 0 THEN [kind |-> "int", val |-> 1]
  ELSE LET c == dom.pager[Len(dom.pager)]
       IN  IF c \notin DigitChars THEN [kind |-> "ValueError", val |-> 0]
           ELSE IF DigitVal(c) = 0 THEN [kind |-> "int", val |-> 10]
           ELSE [kind |-> "int", val |-> DigitVal(c)]

\* variant: the digit is the page count, also when it is 0
ParseMaxPageDigit(dom) ==
  IF ~dom.hasPager THEN [kind |-> "none", val |-> 0]
  ELSE IF Len(dom.pager) = 0 THEN [kind |-> "IndexError", val |-> 0]
  ELSE LET c == dom.pager[Len(dom.pager)]
       IN  IF c \notin DigitChars THEN [kind |-> "ValueError", val |-> 0]
           ELSE [kind |-> "int", val |-> DigitVal(c)]

\* _parse_max_page: "none" (None), a page count, or the exception int()/[-1] raises
_parse_max_page(dom) ==
  IF ~dom.hasPager THEN [kind |-> "none", val |-> 0]
  ELSE IF Len(dom.pager) = 0 THEN [kind |-> "IndexError", val |-> 0]
  ELSE LET c == dom.pager[Len(dom.pager)]
       IN  IF c \notin DigitChars THEN [kind |-> "ValueError", val |-> 0]
           ELSE IF DigitVal(c) = 0 THEN [kind |-> "int", val |-> 10]
           ELSE [kind |-> "int", val |-> DigitVal(c)]

\* _get_text lines 258-264, on what element.find(name, class_=...) found:
\* the text of the element, "" if there is none
_get_text(ele) == IF ele.present THEN ele.text ELSE << >>

\* ",".join(texts)
RECURSIVE JoinComma(_)
JoinComma(ts) ==
  IF ts = << >> THEN << >>
  ELSE IF Len(ts) = 1 THEN ts[1]
  ELSE ts[1] \o <<",">> \o JoinComma(Tail(ts))

\* _join_text lines 266-269: the li texts of the element joined by commas,
\* "" for None
_join_text(list) == IF list.present THEN JoinComma(list.items) ELSE << >>

\* str.replace(fullwidth comma, ",")
ReplaceComma(t) == [i \in DOMAIN t |-> IF t[i] = FullwidthComma THEN "," ELSE t[i]]

\* _parse_single_job lines 271-296: tuple(dict.values()), the 8 texts in the
\* order of the dict literal; a block that _get_info did not find gives ""
\* without a look inside it
_parse_single_job(card) ==
  LET _job_info == card.job_info
      _company_info == card.company_info
      _card_bottom == card.footer
  IN  <<_get_text(card.job_name),
        _get_text(card.job_area),
        _get_text(card.salary),
        IF _job_info.present THEN _join_text(_job_info.tag_list) ELSE << >>,
        IF _company_info.present
          THEN _get_text(_company_info.company_name) ELSE << >>,
        IF _company_info.present
          THEN _join_text(List(_company_info.items)) ELSE << >>,
        IF _card_bottom.present THEN _join_text(_card_bottom.ul) ELSE << >>,
        IF _card_bottom.present
          THEN ReplaceComma(_get_text(_card_bottom.info_desc)) ELSE << >> >>

\* variant: a card without one of its three blocks is left out
ParseJobListSkipIncomplete(dom) ==
  LET whole == SelectSeq(dom.cards,
                 LAMBDA c : /\ c.job_info.present
                            /\ c.company_info.present
                            /\ c.footer.present)
  IN  [k \in DOMAIN whole |-> _parse_single_job(whole[k])]

\* _parse_job_list: one tuple per listing card, in page order
_parse_job_list(dom) == [k \in DOMAIN dom.cards |-> _parse_single_job(dom.cards[k])]

\* the PRIMARY KEY of a row of joboss_url_pool, joboss_max_page and joboss
PrimaryKey(row) ==
  IF "url" \in DOMAIN row THEN <<row.url>>
  ELSE IF "max_page" \in DOMAIN row THEN <<row.keyword, row.area_code>>
  ELSE <<row.job_name, row.company_name, row.area, row.salary, row.skill_tags>>

\* variant: the table has no primary key
InsertManyNoKey(tab, rows, i) ==
  [ok |-> TRUE, tab |-> tab \cup {rows[k] : k \in DOMAIN rows}]

\* cursor.executemany / cursor.execute of an INSERT inside `with conn`: the
\* rows go in one by one; a row whose key is in the table raises
\* IntegrityError and the transaction is rolled back
RECURSIVE InsertMany(_, _, _)
InsertMany(tab, rows, i) ==
  IF i > Len(rows) THEN [ok |-> TRUE, tab |-> tab]
  ELSE IF \E t \in tab : PrimaryKey(t) = PrimaryKey(rows[i])
       THEN [ok |-> FALSE, tab |-> tab]
  ELSE InsertMany(tab \cup {rows[i]}, rows, i + 1)

\* variant: every sqlite3.Error is logged and swallowed
ExecuteSwallowAll(tab, rows, fault) ==
  IF fault # "none" THEN [tab |-> tab, exc |-> "none"]
  ELSE LET r == InsertMany(tab, rows, 1)
       IN  [tab |-> IF r.ok THEN r.tab ELSE tab, exc |-> "none"]

\* execute_sql_command for an INSERT: the table it leaves and the exception
\* that leaves it.  IntegrityError is logged and None is returned; every
\* other sqlite3.Error is logged and raised again
execute_sql_command(tab, rows, fault) ==
  IF fault # "none" THEN [tab |-> tab, exc |-> "sqlite3.Error"]
  ELSE LET r == InsertMany(tab, rows, 1)
       IN  [tab |-> IF r.ok THEN r.tab ELSE tab, exc |-> "none"]

\* the tuple of _parse_single_job bound to the placeholders of the INSERT
JobRow(t) ==
  [job_name |-> t[1], area |-> t[2], salary |-> t[3], edu_exp |-> t[4],
   company_name |-> t[5], company_tag |-> t[6], skill_tags |-> t[7],
   job_other_tags |-> t[8]]

_insert_job_to_db(tab, jobs, fault) ==
  execute_sql_command(tab, [k \in DOMAIN jobs |-> JobRow(jobs[k])], fault)

\* variant: the SELECT matches area_code against the keyword
CheckWrongColumn(tab, kw, city) ==
  \E r \in tab : r.keyword = kw /\ r.area_code = kw

\* _check_in_page_table: is there a row for (keyword, area_code)
_check_in_page_table(tab, kw, city) ==
  \E r \in tab : r.keyword = kw /\ r.area_code = city

\* variant: INSERT OR REPLACE, the new row takes the place of the old one
InsertOrReplaceMaxPage(tab, kw, city, mp, fault) ==
  [tab |-> {r \in tab : ~(r.keyword = kw /\ r.area_code = city)}
             \cup {[keyword |-> kw, area_code |-> city, max_page |-> mp]},
   exc |-> "none"]

\* _insert_max_page_to_db: INSERT of one row
_insert_max_page_to_db(tab, kw, city, mp, fault) ==
  execute_sql_command(
    tab, <<[keyword |-> kw, area_code |-> city, max_page |-> mp]>>, fault)

(* ---------------- the proxy pool (Proxy.get, remote mode) ---------------- *)

\* Proxy._get_proxies: the service answers a request with "num" endpoints and
\* the answer replaces self.proxies.  The service leases every endpoint once;
\* an endpoint is named by the request it answers: req = <<run, unit, attempt>>
\* the answer lists "lines" endpoints, one per line; response.text.split("\n")
\* of an answer without endpoints is one empty string, the endpoint
\* req \o <<0>> ("http://")
_get_proxies(req, lines) ==
  IF lines = 0 THEN <<req \o <<0>>>> ELSE [k \in 1..lines |-> req \o <<k>>]

\* variant: the endpoint is read but not popped
ProxyGetNoPop(pool, req, lines) ==
  LET filled == IF pool = << >> THEN _get_proxies(req, lines) ELSE pool
  IN  [proxy |-> filled[Len(filled)], pool |-> filled]

\* variant: every call requests a batch
ProxyGetAlwaysRefill(pool, req, lines) ==
  LET filled == _get_proxies(req, lines)
  IN  [proxy |-> filled[Len(filled)],
       pool  |-> SubSeq(filled, 1, Len(filled) - 1)]

\* Proxy.get lines 317-321: refill when empty, then pop() the last endpoint
ProxyGet(pool, req, lines) ==
  LET filled == IF pool = << >> THEN _get_proxies(req, lines) ELSE pool
  IN  [proxy |-> filled[Len(filled)],
       pool  |-> SubSeq(filled, 1, Len(filled) - 1)]

(* ---------------- initial state ---------------- *)

NewUnit == [pc |-> "new", attempt |-> 0, banned |-> {}, browser |-> "none",
            contexts |-> {}, context |-> NoCtx, pages |-> {}, dom |-> NoDom,
            page_content |-> Unbound, result |-> "none", exc |-> "none",
            leases |-> << >>, served |-> NoDom, inserted |-> NotCalled]

NoUnit == [NewUnit EXCEPT !.pc = "absent"]

UnitsFor(ts) == [u \in AllUnits |-> IF u <= Len(ts) THEN NewUnit ELSE NoUnit]

SeqsUpTo(S, n) == UNION {[1..k -> S] : k \in 0..n}

CrawlInputs == {[k \in 1..n |-> k] : n \in 0..MaxUrls}
DiscoverInputs == SeqsUpTo(AreaCodes, MaxAreas)

Init ==
  /\ mode \in {"crawl", "discover"}
  /\ tasks \in (IF mode = "crawl" THEN CrawlInputs ELSE DiscoverInputs)
  /\ run = 1
  /\ drv = "init"
  /\ chunk_size = 0
  /\ chunks = << >>
  /\ ci = 0
  /\ areas = << >>
  /\ chunk = {}
  /\ unit = UnitsFor(tasks)
  /\ proxies = [p \in 0..MaxTasks |-> << >>]
  /\ jobTab = {}
  /\ maxPageTab = {}
  /\ urlPool = {}
  /\ call = NoCall
  /\ kdlProxy = NoProxy

(* ---------------- the fetch unit ---------------- *)

InFlight == {"loop", "newpage", "nav", "content", "parse"}
Terminal == {"done", "raised", "cancelled"}

Set(u, r) == unit' = [unit EXCEPT ![u] = r]

\* variant: the browser scope has no finally clause
ManagedBrowserNoClose(r) == r

\* _managed_browser finally: browser.close(), which also closes every context
\* and page the browser still holds
ManagedBrowserExit(r) ==
  [r EXCEPT !.browser = "closed", !.contexts = {}, !.pages = {},
            !.context = NoCtx, !.dom = NoDom]

\* _managed_page finally: page.close() of the page of this attempt
ManagedPageExit(r) ==
  [r EXCEPT !.pages = @ \ {r.attempt}, !.dom = NoDom]

\* an exception that leaves the coroutine from inside the browser scope
RaiseInScope(r, e) ==
  [ManagedBrowserExit(r) EXCEPT !.pc = "raised", !.exc = e]

Started(u) == drv = "gather" /\ u \in chunk /\ unit[u].pc = "new"

\* _crwal_single_page_by_url up to the first loop iteration:
\* _managed_browser -> _build_browser (chromium.launch)
CrawlUnitStart(u) ==
  /\ mode = "crawl"
  /\ Started(u)
  /\ \E ok \in BOOLEAN :
       Set(u, IF ok THEN [unit[u] EXCEPT !.pc = "loop", !.browser = "open"]
              ELSE [unit[u] EXCEPT !.pc = "raised", !.exc = "PlaywrightError"])
  /\ UNCHANGED <<mode, tasks, run, drv, chunk_size, chunks, ci, areas, chunk,
                 proxies, jobTab, maxPageTab,
                 urlPool, call,
                 kdlProxy>>

\* update_page -> update_max_page lines 116-126: the two early returns, then
\* the browser launch
DiscoverUnitStart(u) ==
  /\ mode = "discover"
  /\ Started(u)
  /\ LET city == tasks[u] IN
       IF KEYWORD = "" \/ city = ""
       THEN Set(u, [unit[u] EXCEPT !.pc = "done", !.result = "unset"])
       ELSE IF _check_in_page_table(maxPageTab, KEYWORD, city)
       THEN Set(u, [unit[u] EXCEPT !.pc = "done", !.result = "skip"])
       ELSE \E ok \in BOOLEAN :
              Set(u, IF ok
                     THEN [unit[u] EXCEPT !.pc = "loop", !.browser = "open"]
                     ELSE [unit[u] EXCEPT !.pc = "raised",
                                          !.exc = "PlaywrightError"])
  /\ UNCHANGED <<mode, tasks, run, drv, chunk_size, chunks, ci, areas, chunk,
                 proxies, jobTab, maxPageTab,
                 urlPool, call,
                 kdlProxy>>

\* variant: Proxy.get yields to the event loop between reading the endpoint
\* and removing it from the pool
UpdateContextSuspended(u) ==
  /\ LET p == PoolOf(mode, u)
     IN  \/ /\ unit[u].pc = "loop"
            /\ RangeHasNext(unit[u].attempt)
            /\ LET r == [unit[u] EXCEPT !.attempt = @ + 1]
                   filled == IF proxies[p] = << >>
                               THEN _get_proxies(<<run, u, r.attempt>>, PROXY_NUM)
                               ELSE proxies[p]
               IN  /\ Set(u, [r EXCEPT !.pc = "getting",
                                       !.leases = Append(@, filled[Len(filled)])])
                   /\ proxies' = [proxies EXCEPT ![p] = filled]
         \/ /\ unit[u].pc = "getting"
            /\ LET r == unit[u]
                   c == [att |-> r.attempt, proxy |-> r.leases[Len(r.leases)]]
               IN  Set(u, [r EXCEPT !.pc = "newpage", !.context = c,
                                    !.contexts = @ \cup {c}])
            /\ proxies' = [proxies EXCEPT
                             ![p] = SubSeq(@, 1, Len(@) - 1)]
  /\ UNCHANGED <<mode, tasks, run, drv, chunk_size, chunks, ci, areas, chunk,
                 jobTab, maxPageTab,
                 urlPool, call,
                 kdlProxy>>

\* one more iteration of the retry loop: _update_context leases a proxy with
\* Proxy.get() and opens a new browser context on it
UpdateContext(u) ==
  /\ unit[u].pc = "loop"
  /\ RangeHasNext(unit[u].attempt)
  /\ LET r == [unit[u] EXCEPT !.attempt = @ + 1]
         p == PoolOf(mode, u)
         g == ProxyGet(proxies[p], <<run, u, r.attempt>>, PROXY_NUM)
         c == [att |-> r.attempt, proxy |-> g.proxy]
         l == [r EXCEPT !.leases = Append(@, g.proxy)]
     IN  \E o \in {"ok", "proxy_error", "context_error"} :
           CASE o = "ok" ->
                  /\ Set(u, [l EXCEPT !.pc = "newpage", !.context = c,
                                      !.contexts = @ \cup {c}])
                  /\ proxies' = [proxies EXCEPT ![p] = g.pool]
             [] o = "context_error" ->
                  /\ Set(u, RaiseInScope(l, "PlaywrightError"))
                  /\ proxies' = [proxies EXCEPT ![p] = g.pool]
             [] o = "proxy_error" ->
                  /\ Set(u, RaiseInScope(r, "RequestException"))
                  /\ UNCHANGED proxies
  /\ UNCHANGED <<mode, tasks, run, drv, chunk_size, chunks, ci, areas, chunk,
                 jobTab, maxPageTab,
                 urlPool, call,
                 kdlProxy>>

\* variant: the else clause of the crawl unit has no return either
ExhaustedNoReturn(u) ==
  /\ unit[u].pc = "loop"
  /\ ~RangeHasNext(unit[u].attempt)
  /\ Set(u, [ManagedBrowserExit(unit[u]) EXCEPT !.pc = "parse"])
  /\ UNCHANGED <<mode, tasks, run, drv, chunk_size, chunks, ci, areas, chunk,
                 proxies, jobTab, maxPageTab,
                 urlPool, call,
                 kdlProxy>>

\* variant: the else clause raises instead of returning
ExhaustedRaises(u) ==
  /\ unit[u].pc = "loop"
  /\ ~RangeHasNext(unit[u].attempt)
  /\ Set(u, RaiseInScope(unit[u], "RuntimeError"))
  /\ UNCHANGED <<mode, tasks, run, drv, chunk_size, chunks, ci, areas, chunk,
                 proxies, jobTab, maxPageTab,
                 urlPool, call,
                 kdlProxy>>

\* the for loop is exhausted: the else clause.  The crawl unit returns from
\* inside the browser scope; update_max_page only logs and goes on after it
Exhausted(u) ==
  /\ unit[u].pc = "loop"
  /\ ~RangeHasNext(unit[u].attempt)
  /\ Set(u, IF mode = "crawl"
            THEN [ManagedBrowserExit(unit[u]) EXCEPT !.pc = "done",
                                                     !.result = "nodata"]
            ELSE [ManagedBrowserExit(unit[u]) EXCEPT !.pc = "parse"])
  /\ UNCHANGED <<mode, tasks, run, drv, chunk_size, chunks, ci, areas, chunk,
                 proxies, jobTab, maxPageTab,
                 urlPool, call,
                 kdlProxy>>

\* _managed_page -> _get_cur_page lines 155-158: think-time sleep,
\* context.new_page(), page.evaluate(); both are outside the try
NewPage(u) ==
  /\ unit[u].pc = "newpage"
  /\ \E ok \in BOOLEAN :
       Set(u, IF ok
              THEN [unit[u] EXCEPT !.pc = "nav", !.pages = @ \cup {unit[u].attempt}]
              ELSE RaiseInScope(unit[u], "PlaywrightError"))
  /\ UNCHANGED <<mode, tasks, run, drv, chunk_size, chunks, ci, areas, chunk,
                 proxies, jobTab, maxPageTab,
                 urlPool, call,
                 kdlProxy>>

\* _get_cur_page lines 162-190 and the `if not page: continue` of the loop
\* body: a banned attempt closes its page and goes back to the loop head
NavigateTo(u, o, d) ==
  /\ unit[u].pc = "nav"
  /\ o # "ok" => d = NoDom
  /\ LET r == IF o # "ok"
              THEN [unit[u] EXCEPT !.banned = @ \cup {unit[u].attempt}]
              ELSE [unit[u] EXCEPT !.served = d]
     IN  IF ManagedPageYield(_get_cur_page(o)) = "none"
         THEN Set(u, [ManagedPageExit(r) EXCEPT !.pc = "loop"])
         ELSE Set(u, [r EXCEPT !.pc = "content", !.dom = d])

\* the navigation of one attempt, with what the site answers
Navigate(u) ==
  /\ \E o \in NavOutcomes :
     \E d \in (IF mode = "crawl" THEN CrawlDoms ELSE DiscoverDoms) :
       NavigateTo(u, o, d)
  /\ UNCHANGED <<mode, tasks, run, drv, chunk_size, chunks, ci, areas, chunk,
                 proxies, jobTab, maxPageTab,
                 urlPool, call,
                 kdlProxy>>

\* page_content = await page.content(); break: the page scope and the
\* browser scope are left
Content(u) ==
  /\ unit[u].pc = "content"
  /\ \E ok \in BOOLEAN :
       Set(u, IF ok
              THEN [ManagedBrowserExit(ManagedPageExit(unit[u])) EXCEPT
                      !.pc = "parse",
                      !.page_content = [bound |-> TRUE, dom |-> unit[u].dom]]
              ELSE RaiseInScope(ManagedPageExit(unit[u]), "PlaywrightError"))
  /\ UNCHANGED <<mode, tasks, run, drv, chunk_size, chunks, ci, areas, chunk,
                 proxies, jobTab, maxPageTab,
                 urlPool, call,
                 kdlProxy>>

\* _crwal_single_page_by_url lines 248-249: parse the cards and insert them;
\* a storage error other than a key collision is raised by the gateway
StoreJobs(u) ==
  /\ mode = "crawl"
  /\ unit[u].pc = "parse"
  /\ LET jobs == _parse_job_list(unit[u].page_content.dom) IN
       \E fault \in StorageFaults :
         LET r == _insert_job_to_db(jobTab, jobs, fault)
             c == [called |-> TRUE, jobs |-> jobs, fault |-> fault]
         IN  /\ jobTab' = r.tab
             /\ Set(u, IF r.exc = "none"
                       THEN [unit[u] EXCEPT !.pc = "done", !.result = "stored",
                                            !.inserted = c]
                       ELSE [unit[u] EXCEPT !.pc = "raised", !.exc = r.exc,
                                            !.inserted = c])
  /\ UNCHANGED <<mode, tasks, run, drv, chunk_size, chunks, ci, areas, chunk,
                 proxies, maxPageTab,
                 urlPool, call,
                 kdlProxy>>

\* update_max_page lines 140-143: page_content is read whether or not the
\* loop bound it
StoreMaxPage(u) ==
  /\ mode = "discover"
  /\ unit[u].pc = "parse"
  /\ IF ~unit[u].page_content.bound
     THEN /\ Set(u, [unit[u] EXCEPT !.pc = "raised", !.exc = "UnboundLocalError"])
          /\ maxPageTab' = maxPageTab
     ELSE LET mp == _parse_max_page(unit[u].page_content.dom) IN
       CASE mp.kind = "none" \/ (mp.kind = "int" /\ mp.val = 0) ->  \* if max_page:
              /\ Set(u, [unit[u] EXCEPT !.pc = "done", !.result = "nopager"])
              /\ maxPageTab' = maxPageTab
         [] mp.kind = "int" ->
              \E fault \in StorageFaults :
                LET r == _insert_max_page_to_db(maxPageTab, KEYWORD, tasks[u],
                                                mp.val, fault)
                    c == [NotCalled EXCEPT !.called = TRUE, !.fault = fault]
                IN  /\ maxPageTab' = r.tab
                    /\ Set(u, IF r.exc = "none"
                              THEN [unit[u] EXCEPT !.pc = "done",
                                      !.result = "stored", !.inserted = c]
                              ELSE [unit[u] EXCEPT !.pc = "raised",
                                      !.exc = r.exc, !.inserted = c])
         [] OTHER ->
              /\ Set(u, [unit[u] EXCEPT !.pc = "raised", !.exc = mp.kind])
              /\ maxPageTab' = maxPageTab
  /\ UNCHANGED <<mode, tasks, run, drv, chunk_size, chunks, ci, areas, chunk,
                 proxies, jobTab,
                 urlPool, call,
                 kdlProxy>>

(* ---------------- the drivers ---------------- *)

\* crawl lines 147-149: build the coroutines, cut them into chunks and gather
\* the first one.  range() raises ValueError for a step of 0
CrawlStart ==
  /\ mode = "crawl"
  /\ drv = "init"
  /\ chunk_size' = ChunkSizeOf(Len(tasks))
  /\ IF chunk_size' = 0
     THEN /\ drv' = "raised"
          /\ UNCHANGED <<chunks, ci, chunk>>
     ELSE /\ chunks' = _chunked_tasks(tasks, chunk_size')
          /\ ci' = 1
          /\ chunk' = SeqToSet(chunks'[1])
          /\ drv' = "gather"
  /\ UNCHANGED <<mode, tasks, run, areas, unit,
                 proxies, jobTab, maxPageTab,
                 urlPool, call,
                 kdlProxy>>

\* joboss_spider lines 51-55: read the area table, create the page table
DiscoverStart ==
  /\ mode = "discover"
  /\ drv = "init"
  /\ areas' = [k \in 1..Len(tasks) |-> k]
  /\ drv' = "loop"
  /\ UNCHANGED <<mode, tasks, run, chunk_size, chunks, ci, chunk, unit,
                 proxies, jobTab, maxPageTab,
                 urlPool, call,
                 kdlProxy>>

\* areas.index(x): the first position that holds a row equal to that of unit x
FirstIndex(as, x) ==
  CHOOSE i \in DOMAIN as :
    /\ tasks[as[i]] = tasks[x]
    /\ \A j \in 1..(i - 1) : tasks[as[j]] # tasks[x]

Remove(as, i) == SubSeq(as, 1, i - 1) \o SubSeq(as, i + 1, Len(as))

\* variant: k times random.choice(areas), nothing is popped
PicksNoPop(as, k) ==
  {<<sel, as>> : sel \in [1..k -> SeqToSet(as)]}

\* lines 58-61: k times areas.pop(areas.index(random.choice(areas)));
\* the set of the possible <<selected_areas, areas left>>
RECURSIVE Picks(_, _)
Picks(as, k) ==
  IF k = 0 THEN {<<<< >>, as>>}
  ELSE UNION {
         LET i == FirstIndex(as, as[j])
         IN  {<<<<as[i]>> \o p[1], p[2]>> : p \in Picks(Remove(as, i), k - 1)}
         : j \in DOMAIN as }

\* joboss_spider lines 57-68: the while test, the selection and the gather
DiscoverLoop ==
  /\ mode = "discover"
  /\ drv = "loop"
  /\ IF areas = << >>
     THEN /\ drv' = "done"
          /\ UNCHANGED <<areas, chunk>>
     ELSE \E p \in Picks(areas, Min(MAX_ASY_NUM, Len(areas))) :
            /\ chunk' = SeqToSet(p[1])
            /\ areas' = p[2]
            /\ drv' = "gather"
  /\ UNCHANGED <<mode, tasks, run, chunk_size, chunks, ci, unit,
                 proxies, jobTab, maxPageTab,
                 urlPool, call,
                 kdlProxy>>

\* a coroutine that has returned and whose result gather has handed over:
\* its frame (locals, attempt counter) is gone
Returned(r) == [NewUnit EXCEPT !.pc = "done", !.browser = r.browser]

\* variant: the driver goes on as soon as one coroutine of the chunk returned
GatherFirstDone ==
  /\ drv = "gather"
  /\ \E u \in chunk : unit[u].pc = "done"
  /\ unit' = [u \in AllUnits |->
               IF u \in chunk /\ unit[u].pc = "done" THEN Returned(unit[u])
               ELSE unit[u]]
  /\ IF mode = "crawl"
     THEN IF ci < Len(chunks)
          THEN /\ ci' = ci + 1
               /\ chunk' = SeqToSet(chunks[ci + 1])
               /\ drv' = "gather"
          ELSE /\ drv' = "done"
               /\ chunk' = {}
               /\ ci' = ci
     ELSE /\ drv' = "loop"
          /\ chunk' = {}
          /\ ci' = ci
  /\ UNCHANGED <<mode, tasks, run, chunk_size, chunks, areas,
                 proxies, jobTab, maxPageTab,
                 urlPool, call,
                 kdlProxy>>

\* asyncio.gather returns once every coroutine of the chunk has returned;
\* crawl then takes the next chunk, joboss_spider goes back to its while test
GatherDone ==
  /\ drv = "gather"
  /\ \A u \in chunk : unit[u].pc = "done"
  /\ unit' = [u \in AllUnits |-> IF u \in chunk THEN Returned(unit[u])
                                 ELSE unit[u]]
  /\ IF mode = "crawl"
     THEN IF ci < Len(chunks)
          THEN /\ ci' = ci + 1
               /\ chunk' = SeqToSet(chunks[ci + 1])
               /\ drv' = "gather"
          ELSE /\ drv' = "done"
               /\ chunk' = {}
               /\ ci' = ci
     ELSE /\ drv' = "loop"
          /\ chunk' = {}
          /\ ci' = ci
  /\ UNCHANGED <<mode, tasks, run, chunk_size, chunks, areas,
                 proxies, jobTab, maxPageTab,
                 urlPool, call,
                 kdlProxy>>

\* the event loop cancels a coroutine that is still pending when the run ends:
\* CancelledError is thrown at its await and its scopes are left
Cancelled(r) ==
  IF r.pc \in InFlight \cup {"new"}
  THEN [ManagedBrowserExit(r) EXCEPT !.pc = "cancelled",
          !.browser = IF r.browser = "none" THEN "none" ELSE "closed"]
  ELSE r

\* asyncio.gather re-raises the first exception of a coroutine of the chunk
\* into the driver, which does not catch it.  joboss_spider is the main
\* coroutine of asyncio.run: the loop cancels what is pending at once.  crawl
\* is left through `async with async_playwright()`, which awaits
GatherRaise ==
  /\ drv = "gather"
  /\ \E u \in chunk : unit[u].pc = "raised"
  /\ drv' = "raised"
  /\ unit' = IF mode = "discover"
             THEN [u \in AllUnits |-> IF u \in chunk THEN Cancelled(unit[u])
                                      ELSE unit[u]]
             ELSE unit
  /\ UNCHANGED <<mode, tasks, run, chunk_size, chunks, ci, areas, chunk,
                 proxies, jobTab, maxPageTab,
                 urlPool, call,
                 kdlProxy>>

\* the end of asyncio.run after crawl has raised: pending coroutines of the
\* chunk are cancelled
Cancel(u) ==
  /\ drv = "raised"
  /\ u \in chunk
  /\ unit[u].pc \in InFlight \cup {"new"}
  /\ Set(u, Cancelled(unit[u]))
  /\ UNCHANGED <<mode, tasks, run, drv, chunk_size, chunks, ci, areas, chunk,
                 proxies, jobTab, maxPageTab,
                 urlPool, call,
                 kdlProxy>>

\* the program is run again (joboss_spider): process state starts over, the
\* tables and the area table stay
Restart ==
  /\ mode = "discover"
  /\ drv \in {"done", "raised"}
  /\ \A u \in chunk : unit[u].pc \in Terminal
  /\ run < MaxRuns
  /\ run' = run + 1
  /\ drv' = "init"
  /\ chunk_size' = 0
  /\ chunks' = << >>
  /\ ci' = 0
  /\ areas' = << >>
  /\ chunk' = {}
  /\ unit' = UnitsFor(tasks)
  /\ proxies' = [p \in 0..MaxTasks |-> << >>]
  /\ UNCHANGED <<mode, tasks, jobTab, maxPageTab,
                 urlPool, call,
                 kdlProxy>>

UnitStep(u) ==
  \/ CrawlUnitStart(u)
  \/ DiscoverUnitStart(u)
  \/ UpdateContext(u)
  \/ Exhausted(u)
  \/ NewPage(u)
  \/ Navigate(u)
  \/ Content(u)
  \/ StoreJobs(u)
  \/ StoreMaxPage(u)
  \/ Cancel(u)

Next ==
  \/ CrawlStart
  \/ DiscoverStart
  \/ DiscoverLoop
  \/ GatherDone
  \/ GatherRaise
  \/ Restart
  \/ \E u \in AllUnits : UnitStep(u)

Spec == Init /\ [][Next]_vars

(* ---------------- _chunked_tasks as a function of its arguments ---------------- *)

TaskItems == {"t1", "t2"}

InitChunked ==
  /\ mode = "chunked"
  /\ tasks \in SeqsUpTo(TaskItems, MaxListLen)
  /\ chunk_size \in 1..MaxChunkSize
  /\ run = 1
  /\ drv = "init"
  /\ chunks = << >>
  /\ ci = 0
  /\ areas = << >>
  /\ chunk = {}
  /\ unit = UnitsFor(<< >>)
  /\ proxies = [p \in 0..MaxTasks |-> << >>]
  /\ jobTab = {}
  /\ maxPageTab = {}
  /\ urlPool = {}
  /\ call = NoCall
  /\ kdlProxy = NoProxy

\* list(self._chunked_tasks(tasks, chunk_size))
ChunkedCall ==
  /\ mode = "chunked"
  /\ drv = "init"
  /\ chunks' = _chunked_tasks(tasks, chunk_size)
  /\ drv' = "done"
  /\ UNCHANGED <<mode, tasks, run, chunk_size, ci, areas, chunk, unit,
                 proxies, jobTab, maxPageTab,
                 urlPool, call,
                 kdlProxy>>

NextChunked == ChunkedCall

SpecChunked == InitChunked /\ [][NextChunked]_vars

(* ---------------- _parse_max_page over the texts of the control ---------------- *)

\* texts of div.options-pages: every last character that is a digit, and some
\* that are not
ParseChars == DigitChars \cup {" ", "x"}
ParseTexts == SeqsUpTo(ParseChars, MaxTextLen)
ParseDoms ==
  {NoDom} \cup {[cards |-> << >>, hasPager |-> TRUE, pager |-> t] : t \in ParseTexts}

\* update_max_page at line 140, after the first attempt got a clean page 1:
\* page_content is bound, the browser is closed, the table has no row
InitParse ==
  /\ mode = "discover"
  /\ tasks \in {<<a>> : a \in AreaCodes}
  /\ run = 1
  /\ drv = "gather"
  /\ chunk_size = 0
  /\ chunks = << >>
  /\ ci = 0
  /\ areas = << >>
  /\ chunk = {1}
  /\ \E d \in ParseDoms :
       unit = [UnitsFor(tasks) EXCEPT ![1] =
                 [NewUnit EXCEPT !.pc = "parse", !.attempt = 1,
                    !.browser = "closed", !.served = d,
                    !.leases = <<_get_proxies(<<1, 1, 1>>, PROXY_NUM)[1]>>,
                    !.page_content = [bound |-> TRUE, dom |-> d]]]
  /\ proxies = [p \in 0..MaxTasks |-> << >>]
  /\ jobTab = {}
  /\ maxPageTab = {}
  /\ urlPool = {}
  /\ call = NoCall
  /\ kdlProxy = NoProxy

NextParse == \E u \in DOMAIN tasks : StoreMaxPage(u)

SpecParse == InitParse /\ [][NextParse]_vars

(* ---------------- _parse_job_list over the markup of a card ---------------- *)

\* the first k li texts of a list
ItemTexts == <<<<"p">>, <<"q">>, <<"r">>, <<"s">>>>
Items(k) == SubSeq(ItemTexts, 1, k)
ListChoices == {NoList} \cup {List(Items(k)) : k \in 0..MaxItems}

\* every combination of present and missing sub-elements of a card
JobInfoChoices ==
  {NoJobInfo} \cup {[present |-> TRUE, tag_list |-> l] : l \in ListChoices}
CompanyInfoChoices ==
  {NoCompanyInfo} \cup
  {[present |-> TRUE, company_name |-> n, items |-> Items(k)] :
     n \in {NoElem, Elem(<<"c", "o">>)}, k \in 0..MaxItems}
FooterChoices ==
  {NoFooter} \cup
  {[present |-> TRUE, ul |-> l, info_desc |-> d] :
     l \in ListChoices,
     d \in {NoElem, Elem(<<"x">>), Elem(<<"x", FullwidthComma, "y">>)}}
CardChoices ==
  {CardMarkup(n, a, m, i, c, f) :
     n \in {NoElem, Elem(<<"A">>)}, a \in {NoElem, Elem(<<"b", "j">>)},
     m \in {NoElem, Elem(<<"1", "0", "k">>)},
     i \in JobInfoChoices, c \in CompanyInfoChoices, f \in FooterChoices}

\* a card with nothing below it
BareCard == CardMarkup(NoElem, NoElem, NoElem, NoJobInfo, NoCompanyInfo, NoFooter)

\* result pages: no card, one card of any shape, two cards
ExtractPages ==
  {<< >>} \cup {<<c>> : c \in CardChoices}
          \cup {<<c, d>> : c, d \in {BareCard, CardA, CardB}}

\* _crwal_single_page_by_url at line 248, after the first attempt got a
\* clean page: page_content is bound, the browser is closed
InitExtract ==
  /\ mode = "crawl"
  /\ tasks = <<1>>
  /\ run = 1
  /\ drv = "gather"
  /\ chunk_size = 1
  /\ chunks = <<<<1>>>>
  /\ ci = 1
  /\ areas = << >>
  /\ chunk = {1}
  /\ \E cs \in ExtractPages :
       LET d == [cards |-> cs, hasPager |-> FALSE, pager |-> << >>]
       IN  unit = [UnitsFor(tasks) EXCEPT ![1] =
                     [NewUnit EXCEPT !.pc = "parse", !.attempt = 1,
                        !.browser = "closed", !.served = d,
                        !.leases = <<_get_proxies(<<1, 1, 1>>, PROXY_NUM)[1]>>,
                        !.page_content = [bound |-> TRUE, dom |-> d]]]
  /\ proxies = [p \in 0..MaxTasks |-> << >>]
  /\ jobTab = {}
  /\ maxPageTab = {}
  /\ urlPool = {}
  /\ call = NoCall
  /\ kdlProxy = NoProxy

NextExtract == \E u \in DOMAIN tasks : StoreJobs(u)

SpecExtract == InitExtract /\ [][NextExtract]_vars

(* ---------------- the frontier: joboss_url_pool ---------------- *)

\* build_single_url lines 350-358: the filler parameters
FakeParams ==
  {"industry", "jobType", "experience", "salary", "degree", "scale", "stage"}

\* two of the filler sets that are left when random.sample has dropped
\* between 2 and 5 of the 7
FillerSample ==
  {kept \in {{"industry", "jobType"}, {"salary", "degree", "scale"}} :
     /\ kept \subseteq FakeParams
     /\ Cardinality(FakeParams \ kept) \in 2..5}

\* build_single_url: query, city and page, then the fillers that were kept
build_single_url(keyword, city, page_num, kept) ==
  [query |-> keyword, city |-> city, page |-> page_num, fillers |-> kept]

\* variant: range(1, max_page), the last page is left out
BuildUrlPoolShort(pool, keyword, city, max_page, kept, fault) ==
  execute_sql_command(
    pool,
    [cur_page \in 1..(max_page - 1) |->
       [url |-> build_single_url(keyword, city, cur_page, kept[cur_page]),
        keyword |-> keyword, area_code |-> city, visited |-> 0,
        cur_page |-> cur_page, max_page |-> max_page]],
    fault)

\* _build_url_pool: one row per cur_page in range(1, max_page + 1), inserted
\* with one executemany; kept[cur_page] is what random.sample left
_build_url_pool(pool, keyword, city, max_page, kept, fault) ==
  execute_sql_command(
    pool,
    [cur_page \in 1..max_page |->
       [url |-> build_single_url(keyword, city, cur_page, kept[cur_page]),
        keyword |-> keyword, area_code |-> city, visited |-> 0,
        cur_page |-> cur_page, max_page |-> max_page]],
    fault)

\* the orders in which a SELECT without ORDER BY can return the rows
Orders(tab) ==
  {o \in [1..Cardinality(tab) -> tab] :
     \A i, j \in DOMAIN o : i # j => o[i] # o[j]}

RECURSIVE SumPages(_)
SumPages(results) ==
  IF results = << >> THEN 0
  ELSE Head(results).max_page + SumPages(Tail(results))

\* build_url_pool lines 421-422: the for loop over the rows, from row i on;
\* `done` pages were built before, the insert of row faultAt fails
RECURSIVE BuildLoop(_, _, _, _, _, _)
BuildLoop(pool, results, i, done, kept, faultAt) ==
  IF i > Len(results) THEN [tab |-> pool, exc |-> "none"]
  ELSE LET rec == results[i]
           r == _build_url_pool(
                  pool, rec.keyword, rec.area_code, rec.max_page,
                  [p \in 1..rec.max_page |-> kept[done + p]],
                  IF faultAt = i THEN "locked" ELSE "none")
       IN  IF r.exc # "none" THEN r
           ELSE BuildLoop(r.tab, results, i + 1, done + rec.max_page, kept,
                          faultAt)

\* one run of build_url_pool(): the SELECT of the page table, the early
\* return, the loop.  Statement 1 is the SELECT, statement i + 1 the insert
\* for row i; faultAt = 0 when the storage works throughout
BuildUrlPool ==
  /\ mode \in {"frontier", "store"}
  /\ \E results \in Orders(maxPageTab) :
     \E kept \in [1..SumPages(results) -> FillerSample] :
     \E faultAt \in 0..(Len(results) + 1) :
       LET r == IF faultAt = 1
                THEN [tab |-> urlPool, exc |-> "sqlite3.Error"]
                ELSE BuildLoop(urlPool, results, 1, 0, kept, faultAt - 1)
       IN  /\ urlPool' = r.tab
           /\ call' = [op |-> "build", url |-> EmptyUrl, exc |-> r.exc]
  /\ UNCHANGED <<mode, tasks, run, drv, chunk_size, chunks, ci, areas, chunk,
                 unit, proxies, jobTab, maxPageTab,
                 kdlProxy>>

\* variant: the SELECT has no WHERE clause
SelectAnyUrl(pool) ==
  IF pool # {} THEN {r.url : r \in pool} ELSE {EmptyUrl}

\* _random_select_url: the values it can return.  ORDER BY RANDOM() LIMIT 1
\* over the rows with visited = 0; "" when there is none
_random_select_url(pool) ==
  LET result == {r.url : r \in {q \in pool : q.visited = 0}}
  IN  IF result # {} THEN result ELSE {EmptyUrl}

\* variant: SET visited = 1 - visited
UpdateUrlVisitedToggle(pool, url) ==
  {IF r.url = url THEN [r EXCEPT !.visited = 1 - @] ELSE r : r \in pool}

\* _update_url_visited: UPDATE ... SET visited = 1 WHERE url = :url
_update_url_visited(pool, url) ==
  {IF r.url = url THEN [r EXCEPT !.visited = 1] ELSE r : r \in pool}

\* variant: crawl_single marks the URL as soon as it has selected it
CrawlSingleSelectMark ==
  /\ mode = "frontier"
  /\ \E fault \in StorageFaults :
     \E url \in _random_select_url(urlPool) :
       IF fault # "none"
       THEN /\ call' = [op |-> "select", url |-> EmptyUrl, exc |-> "sqlite3.Error"]
            /\ UNCHANGED <<mode, tasks, unit, urlPool>>
       ELSE /\ call' = [op |-> "select", url |-> url, exc |-> "none"]
            /\ urlPool' = _update_url_visited(urlPool, url)
            /\ mode' = "crawl"
            /\ tasks' = <<1>>
            /\ unit' = UnitsFor(tasks')
  /\ UNCHANGED <<run, drv, chunk_size, chunks, ci, areas, chunk,
                 proxies, jobTab, maxPageTab,
                 kdlProxy>>

\* crawl_single lines 457-459: select a URL, open playwright, call
\* crawl([url]); the unit of the URL is unit 1
CrawlSingleSelect ==
  /\ mode = "frontier"
  /\ \E fault \in StorageFaults :
     \E url \in _random_select_url(urlPool) :
       IF fault # "none"
       THEN /\ call' = [op |-> "select", url |-> EmptyUrl, exc |-> "sqlite3.Error"]
            /\ UNCHANGED <<mode, tasks, unit>>
       ELSE /\ call' = [op |-> "select", url |-> url, exc |-> "none"]
            /\ mode' = "crawl"
            /\ tasks' = <<1>>
            /\ unit' = UnitsFor(tasks')
  /\ UNCHANGED <<run, drv, chunk_size, chunks, ci, areas, chunk,
                 proxies, jobTab, maxPageTab, urlPool,
                 kdlProxy>>

\* the process of crawl_single ends: asyncio.run returns or raises, or the
\* process is killed where it stands.  The tables stay
ProcessEnd ==
  /\ mode = "crawl"
  /\ call.op = "select"
  /\ mode' = "frontier"
  /\ tasks' = << >>
  /\ drv' = "init"
  /\ chunk_size' = 0
  /\ chunks' = << >>
  /\ ci' = 0
  /\ chunk' = {}
  /\ unit' = UnitsFor(<< >>)
  /\ proxies' = [p \in 0..MaxTasks |-> << >>]
  /\ call' = NoCall
  /\ UNCHANGED <<run, areas, jobTab, maxPageTab, urlPool,
                 kdlProxy>>

\* the page tables discovery can have left: at most one row per (keyword,
\* area_code), MaxPoolPages pages in all
FrontierTables ==
  {t \in SUBSET [keyword : {KEYWORD}, area_code : AreaCodes,
                 max_page : 1..MaxPoolPages] :
     /\ \A r, q \in t : r.area_code = q.area_code => r = q
     /\ \A o \in Orders(t) : SumPages(o) <= MaxPoolPages}

InitFrontier ==
  /\ mode = "frontier"
  /\ tasks = << >>
  /\ run = 1
  /\ drv = "init"
  /\ chunk_size = 0
  /\ chunks = << >>
  /\ ci = 0
  /\ areas = << >>
  /\ chunk = {}
  /\ unit = UnitsFor(<< >>)
  /\ proxies = [p \in 0..MaxTasks |-> << >>]
  /\ jobTab = {}
  /\ maxPageTab \in FrontierTables
  /\ urlPool = {}
  /\ call = NoCall
  /\ kdlProxy = NoProxy

\* build_url_pool and crawl_single, run one after the other in any order
NextFrontier ==
  \/ BuildUrlPool
  \/ CrawlSingleSelect
  \/ ProcessEnd
  \/ CrawlStart
  \/ GatherDone
  \/ GatherRaise
  \/ \E u \in AllUnits :
       \/ CrawlUnitStart(u)
       \/ UpdateContext(u)
       \/ Exhausted(u)
       \/ NewPage(u)
       \/ Navigate(u)
       \/ Content(u)
       \/ StoreJobs(u)

SpecFrontier == InitFrontier /\ [][NextFrontier]_vars

(* ---------------- the frontier functions, called in any order ---------------- *)

\* url = _random_select_url()
RandomSelectUrl ==
  /\ mode = "store"
  /\ \E fault \in StorageFaults :
     \E url \in _random_select_url(urlPool) :
       call' = IF fault # "none"
               THEN [op |-> "select", url |-> EmptyUrl, exc |-> "sqlite3.Error"]
               ELSE [op |-> "select", url |-> url, exc |-> "none"]
  /\ UNCHANGED <<mode, tasks, run, drv, chunk_size, chunks, ci, areas, chunk,
                 unit, proxies, jobTab, maxPageTab, urlPool,
                 kdlProxy>>

\* _update_url_visited(url) for a URL of the pool or for ""
UpdateUrlVisited ==
  /\ mode = "store"
  /\ \E fault \in StorageFaults :
     \E url \in {r.url : r \in urlPool} \cup {EmptyUrl} :
       IF fault # "none"
       THEN /\ urlPool' = urlPool
            /\ call' = [op |-> "mark", url |-> EmptyUrl, exc |-> "sqlite3.Error"]
       ELSE /\ urlPool' = _update_url_visited(urlPool, url)
            /\ call' = [op |-> "mark", url |-> EmptyUrl, exc |-> "none"]
  /\ UNCHANGED <<mode, tasks, run, drv, chunk_size, chunks, ci, areas, chunk,
                 unit, proxies, jobTab, maxPageTab,
                 kdlProxy>>

\* the process ends and a new one starts: the tables stay
ProcessRestart ==
  /\ mode = "store"
  /\ call # NoCall
  /\ call' = NoCall
  /\ UNCHANGED <<mode, tasks, run, drv, chunk_size, chunks, ci, areas, chunk,
                 unit, proxies, jobTab, maxPageTab, urlPool,
                 kdlProxy>>

InitStore ==
  /\ mode = "store"
  /\ tasks = << >>
  /\ run = 1
  /\ drv = "init"
  /\ chunk_size = 0
  /\ chunks = << >>
  /\ ci = 0
  /\ areas = << >>
  /\ chunk = {}
  /\ unit = UnitsFor(<< >>)
  /\ proxies = [p \in 0..MaxTasks |-> << >>]
  /\ jobTab = {}
  /\ maxPageTab \in FrontierTables
  /\ urlPool = {}
  /\ call = NoCall
  /\ kdlProxy = NoProxy

NextStore ==
  \/ BuildUrlPool
  \/ RandomSelectUrl
  \/ UpdateUrlVisited
  \/ ProcessRestart

SpecFrontierStore == InitStore /\ [][NextStore]_vars

(* ---------------- build_single_url as a function of its arguments ---------------- *)

\* variant: the same two keys are removed in every call
KeysToRemoveFixed == {{"industry", "jobType"}}

\* build_single_url line 360: what random.sample(list(fake_param),
\* random.randint(2, 5)) can return, as the set of the keys it holds
KeysToRemove == {d \in SUBSET FakeParams : Cardinality(d) \in 2..5}

UrlKeywords == {KEYWORD, "java"}

\* build_single_url(keyword, city, page_num) with the arguments tasks[1]; the
\* URL it returns is kept in call.url
BuildSingleUrl ==
  /\ mode = "url"
  /\ \E keys_to_remove \in KeysToRemove :
       call' = [op |-> "url",
                url |-> build_single_url(tasks[1].keyword, tasks[1].city,
                                         tasks[1].page_num,
                                         FakeParams \ keys_to_remove),
                exc |-> "none"]
  /\ UNCHANGED <<mode, tasks, run, drv, chunk_size, chunks, ci, areas, chunk,
                 unit, proxies, jobTab, maxPageTab, urlPool, kdlProxy>>

InitUrl ==
  /\ mode = "url"
  /\ tasks \in {<<[keyword |-> k, city |-> c, page_num |-> n]>> :
                  k \in UrlKeywords, c \in AreaCodes, n \in 1..MaxPoolPages}
  /\ run = 1
  /\ drv = "init"
  /\ chunk_size = 0
  /\ chunks = << >>
  /\ ci = 0
  /\ areas = << >>
  /\ chunk = {}
  /\ unit = UnitsFor(<< >>)
  /\ proxies = [p \in 0..MaxTasks |-> << >>]
  /\ jobTab = {}
  /\ maxPageTab = {}
  /\ urlPool = {}
  /\ call = NoCall
  /\ kdlProxy = NoProxy

NextUrl == BuildSingleUrl

SpecUrl == InitUrl /\ [][NextUrl]_vars

(* ---------------- the proxy client (class Proxy, remote mode) ---------------- *)

\* KUAI_SECRET_ID of the process, and the id of another account
SECRET_ID == "idA"
OtherId == "idB"

\* the token of the file, and the token a new exchange would return
CachedToken == "tokA"
NewToken == "tokB"

\* the file was written at _time = 0 with expire = 3600; the clock of the
\* process (time.time()) around the three-minute margin
EXPIRE == 3600
MARGIN == 3 * 60
Nows == {100, EXPIRE - MARGIN - 1, EXPIRE - MARGIN, EXPIRE - MARGIN + 1, 3700}

SecretFiles ==
  {NoSecret} \cup
  {[exists |-> TRUE, token |-> CachedToken, expire |-> EXPIRE, time |-> 0,
    id |-> i] : i \in {SECRET_ID, OtherId}}

\* variant: the margin is four minutes
TokenStaleWideMargin(secret, now, id) ==
  \/ secret.time + secret.expire - 4 * 60 < now
  \/ secret.id # id

\* _read_secret_token lines 279-282: the condition under which the token of
\* the file is not used
TokenStale(secret, now, id) ==
  \/ secret.time + secret.expire - MARGIN < now
  \/ secret.id # id

\* a call of a method from the frame on top of the stack; the interpreter
\* raises RecursionError at its recursion limit (MaxDepth frames here), and
\* no frame of the class catches it
ProxyCall(p, f) ==
  IF Len(p.stack) >= MaxDepth
  THEN [p EXCEPT !.stack = << >>, !.exc = "RecursionError", !.pc = "failed"]
  ELSE [p EXCEPT !.stack = Append(@, f)]

\* _read_secret_token returns the token to the _get_secret_token of line 288,
\* which returns it to its caller: __init__ binds it to SECRET_TOKEN, any
\* other caller unpacks it into three names
ProxyReturn(p, token) ==
  LET rest == SubSeq(p.stack, 1, Len(p.stack) - 2)
  IN  IF rest = << >>
      THEN [p EXCEPT !.stack = << >>, !.token = token, !.pc = "ready"]
      ELSE [p EXCEPT !.stack = << >>, !.exc = "ValueError", !.pc = "failed"]

\* Proxy() (tests/test_chrome.py line 13): self.local is the empty tuple,
\* __init__ calls self._get_secret_token()
ProxyNew ==
  /\ mode = "proxy"
  /\ kdlProxy.pc = "new"
  /\ kdlProxy' = [kdlProxy EXCEPT !.pc = "init",
                                  !.stack = <<"_get_secret_token">>]
  /\ UNCHANGED <<mode, tasks, run, drv, chunk_size, chunks, ci, areas, chunk,
                 unit, proxies, jobTab, maxPageTab, urlPool, call>>

\* self._get_secret_token is the method of lines 288-295: the class body
\* binds the name twice and the second binding replaces the one of lines
\* 250-265.  With a file it calls _read_secret_token, without one it calls
\* self._get_secret_token(), which is itself
GetSecretToken ==
  /\ mode = "proxy"
  /\ kdlProxy.pc = "init"
  /\ kdlProxy.stack # << >>
  /\ kdlProxy.stack[Len(kdlProxy.stack)] = "_get_secret_token"
  /\ kdlProxy' = IF kdlProxy.secret.exists
                 THEN ProxyCall(kdlProxy, "_read_secret_token")
                 ELSE ProxyCall(kdlProxy, "_get_secret_token")
  /\ UNCHANGED <<mode, tasks, run, drv, chunk_size, chunks, ci, areas, chunk,
                 unit, proxies, jobTab, maxPageTab, urlPool, call>>

\* _read_secret_token lines 276-286: a stale token calls
\* self._get_secret_token(), the method of lines 288-295 again
ReadSecretToken ==
  /\ mode = "proxy"
  /\ kdlProxy.pc = "init"
  /\ kdlProxy.stack # << >>
  /\ kdlProxy.stack[Len(kdlProxy.stack)] = "_read_secret_token"
  /\ kdlProxy' = IF TokenStale(kdlProxy.secret, kdlProxy.now, kdlProxy.id)
                 THEN ProxyCall(kdlProxy, "_get_secret_token")
                 ELSE ProxyReturn(kdlProxy, kdlProxy.secret.token)
  /\ UNCHANGED <<mode, tasks, run, drv, chunk_size, chunks, ci, areas, chunk,
                 unit, proxies, jobTab, maxPageTab, urlPool, call>>

\* proxies.get() (tests/test_chrome.py lines 14, 16) on an object in remote
\* mode: the pool is proxies[0]; the request of _get_proxies can raise, its
\* answer lists MaxBatch endpoints or fewer
ProxyGetCall ==
  /\ mode = "proxy"
  /\ kdlProxy.pc = "ready"
  /\ Len(kdlProxy.handed) < MaxGets
  /\ \E o \in {"ok", "request_error"} :
     \E lines \in 0..MaxBatch :
       LET g == ProxyGet(proxies[0], <<run, 0, Len(kdlProxy.handed) + 1>>, lines)
       IN  IF o = "request_error" /\ proxies[0] = << >>
           THEN /\ kdlProxy' = [kdlProxy EXCEPT !.exc = "RequestException"]
                /\ UNCHANGED proxies
           ELSE /\ kdlProxy' = [kdlProxy EXCEPT !.exc = "none",
                                                !.handed = Append(@, g.proxy)]
                /\ proxies' = [proxies EXCEPT ![0] = g.pool]
  /\ UNCHANGED <<mode, tasks, run, drv, chunk_size, chunks, ci, areas, chunk,
                 unit, jobTab, maxPageTab, urlPool, call>>

InitProxy ==
  /\ mode = "proxy"
  /\ tasks = << >>
  /\ run = 1
  /\ drv = "init"
  /\ chunk_size = 0
  /\ chunks = << >>
  /\ ci = 0
  /\ areas = << >>
  /\ chunk = {}
  /\ unit = UnitsFor(<< >>)
  /\ proxies = [p \in 0..MaxTasks |-> << >>]
  /\ jobTab = {}
  /\ maxPageTab = {}
  /\ urlPool = {}
  /\ call = NoCall
  /\ kdlProxy \in {[NoProxy EXCEPT !.pc = "new", !.id = SECRET_ID, !.now = n,
                                   !.secret = f] :
                     n \in Nows, f \in SecretFiles}

NextProxy ==
  \/ ProxyNew
  \/ GetSecretToken
  \/ ReadSecretToken
  \/ ProxyGetCall

SpecProxy == InitProxy /\ [][NextProxy]_vars

(* ---------------- crawl(urls) under the event loop's scheduling ---------------- *)

\* crawl(urls) of MaxFairUrls URLs or fewer
InitCrawl ==
  /\ Init
  /\ mode = "crawl"
  /\ Len(tasks) <= MaxFairUrls

NextCrawl ==
  \/ CrawlStart
  \/ GatherDone
  \/ GatherRaise
  \/ \E u \in DOMAIN tasks :
       \/ CrawlUnitStart(u)
       \/ UpdateContext(u)
       \/ Exhausted(u)
       \/ NewPage(u)
       \/ Navigate(u)
       \/ Content(u)
       \/ StoreJobs(u)
       \/ Cancel(u)

\* the event loop resumes a coroutine that is ready, and every await of a
\* unit ends (the browser operations have timeouts): a step that stays
\* possible is taken
SpecCrawlFair == InitCrawl /\ [][NextCrawl]_vars /\ WF_vars(NextCrawl)

(* ---------------- joboss_spider under the event loop's scheduling ---------------- *)

\* the rows of an area table of n rows: the codes "101", "102", "101", ...
\* (the table has no key the driver relies on: a code may be there twice)
AreaTable(n) == [k \in 1..n |-> IF k % 2 = 1 THEN "101" ELSE "102"]

\* joboss_spider on an area table of MaxFairAreas rows or fewer
InitDiscoverFair ==
  /\ mode = "discover"
  /\ tasks \in {AreaTable(n) : n \in 0..MaxFairAreas}
  /\ run = 1
  /\ drv = "init"
  /\ chunk_size = 0
  /\ chunks = << >>
  /\ ci = 0
  /\ areas = << >>
  /\ chunk = {}
  /\ unit = UnitsFor(tasks)
  /\ proxies = [p \in 0..MaxTasks |-> << >>]
  /\ jobTab = {}
  /\ maxPageTab = {}
  /\ urlPool = {}
  /\ call = NoCall
  /\ kdlProxy = NoProxy

NextDiscoverFair ==
  \/ DiscoverStart
  \/ DiscoverLoop
  \/ GatherDone
  \/ GatherRaise
  \/ \E u \in DOMAIN tasks :
       \/ DiscoverUnitStart(u)
       \/ UpdateContext(u)
       \/ Exhausted(u)
       \/ NewPage(u)
       \/ Navigate(u)
       \/ Content(u)
       \/ StoreMaxPage(u)

\* the event loop resumes a coroutine that is ready and every await of a
\* discovery ends; the driver's own steps have no await but the gather
SpecDiscoverFair ==
  InitDiscoverFair /\ [][NextDiscoverFair]_vars /\ WF_vars(NextDiscoverFair)

(* ---------------- one crawl unit and its log ---------------- *)

\* the line _get_cur_page or _check_ip_banned logs for a navigation outcome
\* (lines 175, 179, 182, 202); both timeouts are PlaywrightTimeoutError
NavLog(o) ==
  CASE o \in {"timeout", "no_list"} -> "Timeout when visiting"
    [] o = "nav_error"               -> "Error of type"
    [] o = "ban_phrase"              -> "IP banned"
    [] OTHER                         -> "response"

\* Navigate, with the log line of the navigation kept in call.exc
NavigateLogged(u) ==
  /\ \E o \in NavOutcomes :
     \E d \in (IF mode = "crawl" THEN CrawlDoms ELSE DiscoverDoms) :
       /\ NavigateTo(u, o, d)
       /\ call' = [op |-> "nav", url |-> EmptyUrl, exc |-> NavLog(o)]
  /\ UNCHANGED <<mode, tasks, run, drv, chunk_size, chunks, ci, areas, chunk,
                 proxies, jobTab, maxPageTab, urlPool, kdlProxy>>

\* crawl([url]) of one URL on empty tables
InitRetry ==
  /\ mode = "crawl"
  /\ tasks = <<1>>
  /\ run = 1
  /\ drv = "init"
  /\ chunk_size = 0
  /\ chunks = << >>
  /\ ci = 0
  /\ areas = << >>
  /\ chunk = {}
  /\ unit = UnitsFor(tasks)
  /\ proxies = [p \in 0..MaxTasks |-> << >>]
  /\ jobTab = {}
  /\ maxPageTab = {}
  /\ urlPool = {}
  /\ call = NoCall
  /\ kdlProxy = NoProxy

NextRetry ==
  \/ CrawlStart
  \/ GatherDone
  \/ GatherRaise
  \/ \E u \in DOMAIN tasks :
       \/ CrawlUnitStart(u)
       \/ UpdateContext(u)
       \/ Exhausted(u)
       \/ NewPage(u)
       \/ NavigateLogged(u)
       \/ Content(u)
       \/ StoreJobs(u)

SpecRetry == InitRetry /\ [][NextRetry]_vars

(* ---------------- type invariant ---------------- *)

TypeOK ==
  /\ mode \in {"crawl", "discover", "chunked", "frontier", "store", "proxy",
              "url"}
  /\ run \in 1..MaxRuns
  /\ drv \in {"init", "loop", "gather", "done", "raised"}
  /\ chunk \subseteq AllUnits
  /\ \A u \in AllUnits :
       /\ unit[u].pc \in InFlight \cup Terminal \cup {"new", "absent"}
       /\ unit[u].attempt \in 0..(MAX_RETRIES + 1)
       /\ unit[u].browser \in {"none", "open", "closed"}

(* ---------------- properties ---------------- *)

AllAttempts == 1..MAX_RETRIES

\* C1: a crawl unit whose MAX_RETRIES attempts were all banned makes no
\* further step but its return: it ends "done" with "no data", it raises no
\* exception and it never calls the job insert.
C1_AllBannedNoData ==
  \A u \in AllUnits :
    (mode = "crawl" /\ unit[u].banned = AllAttempts) =>
      /\ unit[u].pc \in {"loop", "done", "cancelled"}
      /\ unit[u].exc = "none"
      /\ ~unit[u].inserted.called
      /\ unit[u].pc = "done" => unit[u].result = "nodata"

C1_Witness ==
  \E u \in AllUnits :
    /\ mode = "crawl"
    /\ unit[u].banned = AllAttempts
    /\ unit[u].pc = "done"
    /\ unit[u].result = "nodata"

\* C2 (as claimed): page-count discovery whose MAX_RETRIES attempts were all
\* banned returns without raising and writes no MaxPageRecord.
C2_Claim ==
  \A u \in AllUnits :
    (mode = "discover" /\ unit[u].banned = AllAttempts
       /\ unit[u].pc \in {"done", "raised"}) =>
      /\ unit[u].pc = "done"
      /\ unit[u].exc = "none"
      /\ ~\E r \in maxPageTab : r.keyword = KEYWORD /\ r.area_code = tasks[u]

\* C3: a fetch unit (crawl or discovery) never makes more than MAX_RETRIES
\* attempts, and every attempt before its latest one was banned: no attempt
\* follows an attempt that got a non-banned page.
C3_BoundedAttempts ==
  \A u \in AllUnits :
    /\ unit[u].attempt <= MAX_RETRIES
    /\ \A a \in 1..(unit[u].attempt - 1) : a \in unit[u].banned

C3_Witness ==
  \E u \in AllUnits :
    /\ mode = "discover"
    /\ unit[u].attempt = MAX_RETRIES
    /\ unit[u].banned = 1..(MAX_RETRIES - 1)
    /\ unit[u].pc = "done"
    /\ unit[u].result = "stored"

RECURSIVE Concat(_)
Concat(ss) == IF ss = << >> THEN << >> ELSE Head(ss) \o Concat(Tail(ss))

\* C7: for every list and every chunk_size >= 1 the chunks of _chunked_tasks,
\* put end to end, are the list; every chunk but the last has chunk_size
\* items and the last has between 1 and chunk_size.
C7_ChunksPartition ==
  (mode = "chunked" /\ drv = "done") =>
    /\ Concat(chunks) = tasks
    /\ \A k \in DOMAIN chunks :
         /\ k < Len(chunks) => Len(chunks[k]) = chunk_size
         /\ Len(chunks[k]) \in 1..chunk_size

C7_Witness ==
  /\ mode = "chunked"
  /\ drv = "done"
  /\ Len(tasks) = 5
  /\ chunk_size = 2
  /\ Len(chunks) = 3
  /\ Len(chunks[3]) = 1

OpenSessions == {u \in AllUnits : unit[u].browser = "open"}

\* C5: during crawl(urls) at most CRAWL_CHUNK (2) units hold an open browser.
C5_BoundedSessions ==
  mode = "crawl" => Cardinality(OpenSessions) <= 2

C5_Witness ==
  /\ mode = "crawl"
  /\ Len(tasks) = 5
  /\ ci = 2
  /\ Cardinality(OpenSessions) = 2

\* the chunk of crawl() a unit was put in
ChunkOf(u) == CHOOSE k \in DOMAIN chunks : u \in SeqToSet(chunks[k])

\* C6: no unit of a later chunk has started while a unit of an earlier chunk
\* has not terminated.
C6_ChunksInOrder ==
  (mode = "crawl" /\ chunks # << >>) =>
    \A u, v \in 1..Len(tasks) :
      (ChunkOf(u) < ChunkOf(v) /\ unit[v].pc # "new") =>
        unit[u].pc \in Terminal

\* both units of the second chunk are in flight, in different positions, and
\* the first chunk is over
C6_Witness ==
  /\ mode = "crawl"
  /\ ci = 2
  /\ unit[1].pc = "done" /\ unit[2].pc = "done"
  /\ unit[3].pc = "nav" /\ unit[4].pc = "content"

\* C8: a unit that has terminated (returned, raised or been cancelled) holds
\* no open browser, and with it no open context or page.
C8_BrowserClosed ==
  \A u \in AllUnits :
    unit[u].pc \in Terminal =>
      /\ unit[u].browser # "open"
      /\ unit[u].contexts = {}
      /\ unit[u].pages = {}

\* one unit left by an exception inside the retry loop, one by exhaustion
C8_Witness ==
  \E u, v \in AllUnits :
    /\ unit[u].pc = "raised" /\ unit[u].attempt >= 1
    /\ unit[u].browser = "closed"
    /\ unit[v].pc = "done" /\ unit[v].result = "nodata"
    /\ unit[v].browser = "closed"

\* C9 (as claimed): when an attempt has ended (the unit is back at the loop
\* head or has left the loop) no context and no page of it is still open.
C9_Claim ==
  \A u \in AllUnits :
    unit[u].pc = "loop" => (unit[u].contexts = {} /\ unit[u].pages = {})

\* C10: update_max_page for a pair that has a MaxPageRecord ends at once:
\* it opens no browser, leases no proxy and leaves the tables as they are.
C10_DiscoveryIdempotent ==
  [][\A u \in AllUnits :
       (/\ mode = "discover"
        /\ unit[u].pc = "new"
        /\ unit'[u].pc \notin {"new", "cancelled"}
        /\ \E r \in maxPageTab :
             r.keyword = KEYWORD /\ r.area_code = tasks[u]) =>
         /\ unit'[u].pc = "done"
         /\ unit'[u].browser = "none"
         /\ unit'[u].attempt = 0
         /\ unit'[u].leases = << >>
         /\ proxies' = proxies
         /\ maxPageTab' = maxPageTab
         /\ jobTab' = jobTab]_vars

\* the second run finds the record the first run wrote
C10_Witness ==
  \E u \in AllUnits :
    /\ mode = "discover"
    /\ run = 2
    /\ unit[u].pc = "done"
    /\ unit[u].result = "skip"
    /\ unit[u].browser = "none"
    /\ \E r \in maxPageTab : r.keyword = KEYWORD /\ r.area_code = tasks[u]

\* the rows of joboss_max_page for one (keyword, area_code)
MaxPageRecords(kw, city) ==
  {r \in maxPageTab : r.keyword = kw /\ r.area_code = city}

\* C11: the store never holds two MaxPageRecords for one (keyword,
\* area_code), and no step removes a record or changes its max_page: every
\* row of joboss_max_page is still there, as it was, after every step.
C11_MaxPageRecordStable ==
  /\ [](\A r, q \in maxPageTab :
          (r.keyword = q.keyword /\ r.area_code = q.area_code) => r = q)
  /\ [][\A r \in maxPageTab : r \in maxPageTab']_vars

\* two concurrent discoveries of one pair were served different page counts
\* and both went through the insert: the record is that of the first
C11_Witness ==
  \E u, v \in DOMAIN tasks :
    /\ mode = "discover"
    /\ u # v /\ tasks[u] = tasks[v]
    /\ unit[u].pc = "done" /\ unit[u].result = "stored"
    /\ unit[v].pc = "done" /\ unit[v].result = "stored"
    /\ unit[u].served.pager = <<"1", "0">>
    /\ unit[v].served.pager = <<"1", "2">>
    /\ MaxPageRecords(KEYWORD, tasks[u]) =
         {[keyword |-> KEYWORD, area_code |-> tasks[u], max_page |-> 10]}

\* the last character of the text of the pagination control a unit parsed
LastChar(u) ==
  unit[u].page_content.dom.pager[Len(unit[u].page_content.dom.pager)]

\* C12: discovery that parsed a pagination control whose text ends in a
\* digit, with the storage working, ends with the record of the pair holding
\* 10 if the digit is 0 and the digit itself if it is 1..9; every stored
\* max_page is in 1..10.
C12_MaxPageFromLastDigit ==
  /\ \A u \in DOMAIN tasks :
       (/\ mode = "discover"
        /\ unit[u].pc \in {"done", "raised"}
        /\ unit[u].page_content.dom.hasPager
        /\ unit[u].page_content.dom.pager # << >>
        /\ LastChar(u) \in DigitChars
        /\ unit[u].inserted.fault = "none") =>
         /\ unit[u].pc = "done"
         /\ unit[u].result = "stored"
         /\ MaxPageRecords(KEYWORD, tasks[u]) =
              {[keyword |-> KEYWORD, area_code |-> tasks[u],
                max_page |-> IF LastChar(u) = "0" THEN 10
                             ELSE DigitVal(LastChar(u))]}
  /\ \A r \in maxPageTab : r.max_page \in 1..10

\* a control that reads "30" gave the record 10
C12_Witness ==
  \E u \in DOMAIN tasks :
    /\ mode = "discover"
    /\ unit[u].pc = "done"
    /\ unit[u].result = "stored"
    /\ unit[u].page_content.dom.pager = <<"3", "0">>
    /\ \E r \in MaxPageRecords(KEYWORD, tasks[u]) : r.max_page = 10

\* C13: update_max_page that got a page 1 without the pagination control
\* returns without raising and leaves joboss_max_page as it is; and a
\* discovery started for a pair that has no record does not skip: it goes on
\* to open a browser for the fetch.
C13_NoPagerNoRecord ==
  [][\A u \in DOMAIN tasks :
       /\ (/\ mode = "discover"
           /\ unit[u].pc = "parse"
           /\ unit[u].page_content.bound
           /\ ~unit[u].page_content.dom.hasPager
           /\ unit'[u].pc \notin {"parse", "cancelled"}) =>
            /\ unit'[u].pc = "done"
            /\ unit'[u].exc = "none"
            /\ unit'[u].result = "nopager"
            /\ maxPageTab' = maxPageTab
       /\ (/\ mode = "discover"
           /\ unit[u].pc = "new"
           /\ unit'[u].pc \notin {"new", "cancelled"}
           /\ MaxPageRecords(KEYWORD, tasks[u]) = {}) =>
            /\ unit'[u].pc \in {"loop", "raised"}
            /\ unit'[u].result = "none"]_vars

\* one discovery of the pair has returned for want of the control, the pair
\* has no record and another discovery of it has opened its browser
C13_Witness ==
  \E u, v \in DOMAIN tasks :
    /\ mode = "discover"
    /\ u # v /\ tasks[u] = tasks[v]
    /\ unit[u].pc = "done" /\ unit[u].result = "nopager"
    /\ unit[u].exc = "none"
    /\ MaxPageRecords(KEYWORD, tasks[u]) = {}
    /\ unit[v].pc = "loop" /\ unit[v].attempt = 0
    /\ unit[v].browser = "open"

\* the rows of a table that have the primary key of `row`
SameKey(tab, row) == {t \in tab : PrimaryKey(t) = PrimaryKey(row)}

\* C14: joboss never holds two rows with one primary key; and when the
\* storage works, a job insert returns without raising, and for every record
\* of it whose key was stored before, the row with that key is after the
\* insert the one row it was before.
C14_DuplicateJobOneRow ==
  /\ [](\A r \in jobTab : SameKey(jobTab, r) = {r})
  /\ [][\A u \in DOMAIN tasks :
          (/\ mode = "crawl"
           /\ unit[u].pc = "parse"
           /\ unit'[u].pc \notin {"parse", "cancelled"}
           /\ unit'[u].inserted.fault = "none") =>
            /\ unit'[u].pc = "done"
            /\ unit'[u].exc = "none"
            /\ \A k \in DOMAIN unit'[u].inserted.jobs :
                 LET row == JobRow(unit'[u].inserted.jobs[k])
                 IN  SameKey(jobTab, row) # {} =>
                       /\ SameKey(jobTab', row) = SameKey(jobTab, row)
                       /\ Cardinality(SameKey(jobTab', row)) = 1]_vars

\* two units of a chunk were served the same card and both inserted it
C14_Witness ==
  \E u, v \in DOMAIN tasks :
    /\ mode = "crawl"
    /\ u # v
    /\ unit[u].pc = "done" /\ unit[v].pc = "done"
    /\ unit[u].inserted.jobs = <<_parse_single_job(CardA)>>
    /\ unit[v].inserted.jobs = <<_parse_single_job(CardA)>>
    /\ unit[u].exc = "none" /\ unit[v].exc = "none"
    /\ jobTab = {JobRow(_parse_single_job(CardA))}

\* C15: an insert of the crawl engine (jobs or max page) raises nothing when
\* the only thing wrong is a key that is already stored; with any other
\* storage error the unit raises sqlite3.Error and both tables are as they
\* were; and the run is over: the driver of a unit that raised it never
\* finishes its chunk, it can only raise in its turn.
C15_StorageErrorAborts ==
  /\ [](\A u \in AllUnits :
          unit[u].exc = "sqlite3.Error" =>
            /\ unit[u].pc = "raised"
            /\ u \in chunk
            /\ drv \in {"gather", "raised"})
  /\ [][\A u \in DOMAIN tasks :
          (/\ unit[u].pc = "parse"
           /\ unit'[u].inserted.called) =>
            IF unit'[u].inserted.fault = "none"
            THEN /\ unit'[u].pc = "done"
                 /\ unit'[u].exc = "none"
            ELSE /\ unit'[u].pc = "raised"
                 /\ unit'[u].exc = "sqlite3.Error"
                 /\ jobTab' = jobTab
                 /\ maxPageTab' = maxPageTab]_vars

\* the job insert of a unit failed on a locked database after another unit
\* had stored its page; the driver has raised
C15_Witness ==
  \E u \in DOMAIN tasks :
    /\ mode = "crawl"
    /\ unit[u].pc = "raised"
    /\ unit[u].exc = "sqlite3.Error"
    /\ unit[u].inserted.fault = "locked"
    /\ Len(unit[u].inserted.jobs) = 2
    /\ jobTab = {JobRow(_parse_single_job(CardA))}
    /\ drv = "raised"

\* the URLs of the frontier, and those that are marked visited
PoolUrls(pool) == {r.url : r \in pool}
VisitedUrls(pool) == {r.url : r \in {q \in pool : q.visited = 1}}

\* C16 (as claimed): when the unit of crawl_single has extracted and stored
\* the page of the frontier URL that was selected, the entry of that URL is
\* marked visited.
C16_Claim ==
  (/\ mode = "crawl"
   /\ call.op = "select"
   /\ call.url \in PoolUrls(urlPool)
   /\ unit[1].pc = "done"
   /\ unit[1].result = "stored") =>
    call.url \in VisitedUrls(urlPool)

\* C17: no entry becomes visited unless the unit of its URL has stored the
\* page (new entries come in unvisited); and while the fetch of the selected
\* URL is not over, or is over without a stored page (the unit raised, was
\* cancelled or ran out of attempts), the entry is unvisited, so that the
\* selection of a later process can return it.
C17_MarkOnlyAfterStore ==
  /\ [](\A u \in DOMAIN tasks :
          (/\ mode = "crawl"
           /\ call.op = "select"
           /\ call.url \in PoolUrls(urlPool)
           /\ \/ unit[u].pc \in InFlight \cup {"new", "raised", "cancelled"}
              \/ unit[u].result = "nodata") =>
            call.url \notin VisitedUrls(urlPool))
  /\ [][/\ \A url \in VisitedUrls(urlPool') \ VisitedUrls(urlPool) :
            /\ url \in PoolUrls(urlPool)
            /\ mode = "crawl"
            /\ call.url = url
            /\ unit[1].result = "stored" \/ unit'[1].result = "stored"]_vars

\* the unit of a selected frontier URL raised in its second attempt; the
\* entry is unvisited
C17_Witness ==
  /\ mode = "crawl"
  /\ call.op = "select"
  /\ call.url \in PoolUrls(urlPool) \ VisitedUrls(urlPool)
  /\ unit[1].pc = "raised"
  /\ unit[1].attempt = 2
  /\ drv = "raised"

\* C18: a URL that _random_select_url returns, if it is not "", is the URL
\* of a frontier entry that has visited = 0 when the selection is made.
C18_SelectUnvisited ==
  [][(/\ call'.op = "select"
      /\ call'.exc = "none"
      /\ call'.url # EmptyUrl) =>
       \E r \in urlPool : r.url = call'.url /\ r.visited = 0]_vars

\* the pool has three entries or more, all but one are visited, and the
\* selection has returned that one
C18_Witness ==
  /\ mode = "store"
  /\ call.op = "select"
  /\ Cardinality(urlPool) >= 3
  /\ PoolUrls(urlPool) \ VisitedUrls(urlPool) = {call.url}

\* C19: no step (populate, select, mark, restart) removes a URL from the
\* frontier or takes a URL out of the visited ones.
C19_FrontierOnlyGrows ==
  [][/\ PoolUrls(urlPool) \subseteq PoolUrls(urlPool')
     /\ VisitedUrls(urlPool) \subseteq VisitedUrls(urlPool')]_vars

\* after a restart: a page has a visited entry and, from a later populate
\* run, an unvisited one
C19_Witness ==
  /\ mode = "store"
  /\ call = NoCall
  /\ \E r, q \in urlPool :
       /\ r.visited = 1 /\ q.visited = 0
       /\ r.area_code = q.area_code /\ r.cur_page = q.cur_page

\* C20: a run of build_url_pool that starts from an empty frontier and meets
\* no storage error leaves, for every MaxPageRecord (keyword, area, m) and
\* every page 1..m, exactly one entry, and no other entry; every entry is
\* unvisited, has the max_page of its record, and its URL asks for its
\* keyword, area and page.
C20_PopulateFromEmpty ==
  [][(/\ urlPool = {}
      /\ call'.op = "build"
      /\ call'.exc = "none") =>
       /\ \A rec \in maxPageTab : \A p \in 1..rec.max_page :
            Cardinality({r \in urlPool' : /\ r.keyword = rec.keyword
                                          /\ r.area_code = rec.area_code
                                          /\ r.cur_page = p}) = 1
       /\ \A r \in urlPool' :
            /\ r.visited = 0
            /\ \E rec \in maxPageTab :
                 /\ rec.keyword = r.keyword
                 /\ rec.area_code = r.area_code
                 /\ rec.max_page = r.max_page
                 /\ r.cur_page \in 1..rec.max_page
            /\ r.url.query = r.keyword
            /\ r.url.city = r.area_code
            /\ r.url.page = r.cur_page]_vars

\* records with 1 and 2 pages gave a frontier of 3 entries
C20_Witness ==
  /\ mode = "frontier"
  /\ call.op = "build"
  /\ call.exc = "none"
  /\ {r.max_page : r \in maxPageTab} = {1, 2}
  /\ Cardinality(urlPool) = 3
  /\ \A r \in urlPool : r.visited = 0

\* C21 (as claimed): a Proxy built when no token is cached, when the cached
\* token is less than three minutes from expiry or when it was issued for
\* another secret id obtains a new token, persists it with its expiry, issue
\* time and secret id, and holds it.
C21_Claim ==
  (/\ mode = "proxy"
   /\ kdlProxy.pc \in {"ready", "failed"}
   /\ \/ ~kdlProxy.secret.exists
      \/ kdlProxy.secret.time + kdlProxy.secret.expire - kdlProxy.now < MARGIN
      \/ kdlProxy.secret.id # kdlProxy.id) =>
    /\ kdlProxy.pc = "ready"
    /\ kdlProxy.token = NewToken
    /\ kdlProxy.secret.exists
    /\ kdlProxy.secret.token = NewToken
    /\ kdlProxy.secret.id = kdlProxy.id

\* C22: a Proxy built when the file holds a token of the same secret id that
\* is more than three minutes from expiry holds that token, and the file is
\* as it was.
C22_ValidTokenReused ==
  (/\ mode = "proxy"
   /\ kdlProxy.pc \in {"ready", "failed"}
   /\ kdlProxy.secret.exists
   /\ kdlProxy.secret.id = kdlProxy.id
   /\ kdlProxy.secret.time + kdlProxy.secret.expire - kdlProxy.now > MARGIN) =>
    /\ kdlProxy.pc = "ready"
    /\ kdlProxy.token = CachedToken
    /\ kdlProxy.secret = [exists |-> TRUE, token |-> CachedToken,
                          expire |-> EXPIRE, time |-> 0, id |-> SECRET_ID]

\* the token was one second more than three minutes from expiry
C22_Witness ==
  /\ mode = "proxy"
  /\ kdlProxy.pc = "ready"
  /\ kdlProxy.now = EXPIRE - MARGIN - 1
  /\ kdlProxy.token = CachedToken

\* C23: a get() that finds the pool empty returns the last endpoint of the
\* batch it requests in this call and leaves the others in the pool; a get()
\* that finds endpoints returns the last of them, removes it and requests
\* nothing; no endpoint is returned by two calls; a batch without endpoints
\* is no error of the call.
C23_GetRefillsWhenEmpty ==
  [][(mode = "proxy" /\ kdlProxy'.handed # kdlProxy.handed) =>
       LET n == Len(kdlProxy'.handed)
           e == kdlProxy'.handed[n]
           pool == proxies[0]
           left == proxies'[0]
       IN  /\ kdlProxy'.handed = Append(kdlProxy.handed, e)
           /\ kdlProxy'.exc = "none"
           /\ \A i \in DOMAIN kdlProxy.handed : kdlProxy.handed[i] # e
           /\ IF pool = << >>
              THEN /\ e[3] = n
                   /\ \A i \in DOMAIN left : left[i][3] = n /\ left[i] # e
              ELSE /\ e = pool[Len(pool)]
                   /\ left = SubSeq(pool, 1, Len(pool) - 1)]_vars

\* three calls: a batch of two endpoints, the endpoint left of it, then a
\* batch without endpoints
C23_Witness ==
  /\ mode = "proxy"
  /\ Len(kdlProxy.handed) = 3
  /\ kdlProxy.handed[1] = <<1, 0, 1, 2>>
  /\ kdlProxy.handed[2] = <<1, 0, 1, 1>>
  /\ kdlProxy.handed[3] = <<1, 0, 3, 0>>
  /\ proxies[0] = << >>
  /\ kdlProxy.exc = "none"

\* C24 (as claimed): a unit whose browser launch, proxy lease, context
\* creation or page creation fails does not end with the exception while
\* attempts remain: the failure costs the attempt and the unit goes on.
C24_Claim ==
  [][\A u \in DOMAIN tasks :
       (/\ unit[u].pc \in {"new", "loop", "newpage"}
        /\ unit'[u].pc = "raised") =>
         unit'[u].attempt >= MAX_RETRIES]_vars

\* C25: a navigation that ends in a timeout (of goto or of the wait for the
\* job list) marks the attempt banned, closes its page and takes the unit
\* back to the head of the retry loop without an exception; from there a unit
\* that has made fewer than MAX_RETRIES attempts starts the next attempt.
C25_TimeoutRetries ==
  [][/\ (/\ unit[1].pc = "nav"
         /\ call'.op = "nav"
         /\ call'.exc = "Timeout when visiting") =>
          /\ unit'[1].pc = "loop"
          /\ unit'[1].exc = "none"
          /\ unit'[1].attempt = unit[1].attempt
          /\ unit'[1].banned = unit[1].banned \cup {unit[1].attempt}
          /\ unit'[1].pages = unit[1].pages \ {unit[1].attempt}
     /\ (/\ unit[1].pc = "loop"
         /\ call.exc = "Timeout when visiting"
         /\ unit[1].attempt < MAX_RETRIES) =>
          unit'[1].attempt = unit[1].attempt + 1]_vars

\* the second attempt of a unit whose first navigation timed out is at its
\* navigation
C25_Witness ==
  /\ mode = "crawl"
  /\ call.exc = "Timeout when visiting"
  /\ unit[1].banned = {1}
  /\ unit[1].attempt = 2
  /\ unit[1].pc = "nav"

\* every unit of crawl(urls) has returned and the driver is past its last chunk
AllRan == drv = "done" /\ \A v \in DOMAIN tasks : unit[v].pc = "done"

\* C26: the step of a crawl unit that has used its MAX_RETRIES attempts is
\* its return without an exception, and it changes neither the driver nor
\* another unit; and once a unit has used its attempts, either every unit of
\* crawl(urls) runs to its return and the driver passes its last chunk, or a
\* unit raises (by the first half, not in the step that ends its retries).
C26_ExhaustedUnitNoAbort ==
  /\ [][\A u \in DOMAIN tasks :
          (/\ drv = "gather"
           /\ unit[u].pc = "loop"
           /\ unit[u].attempt = MAX_RETRIES
           /\ unit'[u] # unit[u]) =>
            /\ unit'[u].pc = "done"
            /\ unit'[u].exc = "none"
            /\ drv' = drv
            /\ chunk' = chunk
            /\ \A v \in DOMAIN tasks : v # u => unit'[v] = unit[v]]_vars
  /\ (\E u \in DOMAIN tasks :
        unit[u].pc = "loop" /\ unit[u].attempt = MAX_RETRIES) ~>
       (AllRan \/ \E v \in DOMAIN tasks : unit[v].pc = "raised")

\* of three URLs, unit 1 gave up after MAX_RETRIES banned attempts, unit 2
\* of its chunk went on to store its page, and the driver has not yet taken
\* the chunk of unit 3
C26_Witness ==
  /\ mode = "crawl"
  /\ Len(tasks) = 3
  /\ ci = 1
  /\ drv = "gather"
  /\ unit[1].pc = "done" /\ unit[1].result = "nodata"
  /\ unit[1].banned = 1..MAX_RETRIES
  /\ unit[2].pc = "done" /\ unit[2].result = "stored"
  /\ unit[3].pc = "new"

\* the 8 texts a card gives: a sub-element that is missing, or that lies in
\* a block that is missing, gives the empty text
FieldsOf(c) ==
  <<IF c.job_name.present THEN c.job_name.text ELSE << >>,
    IF c.job_area.present THEN c.job_area.text ELSE << >>,
    IF c.salary.present THEN c.salary.text ELSE << >>,
    IF c.job_info.present /\ c.job_info.tag_list.present
      THEN JoinComma(c.job_info.tag_list.items) ELSE << >>,
    IF c.company_info.present /\ c.company_info.company_name.present
      THEN c.company_info.company_name.text ELSE << >>,
    IF c.company_info.present
      THEN JoinComma(c.company_info.items) ELSE << >>,
    IF c.footer.present /\ c.footer.ul.present
      THEN JoinComma(c.footer.ul.items) ELSE << >>,
    IF c.footer.present /\ c.footer.info_desc.present
      THEN ReplaceComma(c.footer.info_desc.text) ELSE << >> >>

\* C27: the records handed to the insert are one per listing card of the
\* page, in page order, each of 8 texts; a text is empty when its
\* sub-element or its block is missing, and the text of the sub-element
\* otherwise.
C27_OneRecordPerCard ==
  (mode = "crawl" /\ unit[1].inserted.called) =>
    LET cards == unit[1].served.cards
        jobs == unit[1].inserted.jobs
    IN  /\ Len(jobs) = Len(cards)
        /\ \A k \in DOMAIN cards :
             /\ Len(jobs[k]) = 8
             /\ jobs[k] = FieldsOf(cards[k])

\* a page of one card that has only its footer, and in it only the text
\* with a fullwidth comma: one record, 7 empty texts
C27_Witness ==
  /\ mode = "crawl"
  /\ unit[1].inserted.called
  /\ Len(unit[1].served.cards) = 1
  /\ ~unit[1].served.cards[1].job_info.present
  /\ ~unit[1].served.cards[1].company_info.present
  /\ ~unit[1].served.cards[1].job_name.present
  /\ unit[1].inserted.jobs =
       <<<<<< >>, << >>, << >>, << >>, << >>, << >>, << >>, <<"x", ",", "y">>>>>>

\* C28: the URL that build_single_url returns has the query, city and page
\* it was given, and of the 7 filler parameters it has all but 2, 3, 4 or 5;
\* and another call with the same arguments can return a URL with other
\* fillers.
C28_UrlKeepsArgsDropsFillers ==
  (mode = "url" /\ call.op = "url") =>
    /\ call.url.query = tasks[1].keyword
    /\ call.url.city = tasks[1].city
    /\ call.url.page = tasks[1].page_num
    /\ call.url.fillers \subseteq
         {"industry", "jobType", "experience", "salary", "degree", "scale",
          "stage"}
    /\ 7 - Cardinality(call.url.fillers) \in 2..5
    /\ ENABLED (BuildSingleUrl /\ call'.url.fillers # call.url.fillers)

\* a URL of page 2 for "java" in area 102 that lost 5 of the fillers
C28_Witness ==
  /\ mode = "url"
  /\ call.op = "url"
  /\ call.url.query = "java" /\ call.url.city = "102" /\ call.url.page = 2
  /\ call.url.fillers = {"salary", "stage"}

\* C29 (as claimed): when the storage works and a job insert has a record
\* whose key is stored, every record of the insert whose key was not stored
\* is stored after it.
C29_Claim ==
  [][\A u \in DOMAIN tasks :
       (/\ mode = "crawl"
        /\ unit[u].pc = "parse"
        /\ unit'[u].pc \notin {"parse", "cancelled"}
        /\ unit'[u].inserted.fault = "none"
        /\ \E k \in DOMAIN unit'[u].inserted.jobs :
             SameKey(jobTab, JobRow(unit'[u].inserted.jobs[k])) # {}) =>
         \A k \in DOMAIN unit'[u].inserted.jobs :
           LET row == JobRow(unit'[u].inserted.jobs[k])
           IN  SameKey(jobTab, row) = {} => row \in jobTab']_vars

\* C30 (as claimed): the frontier never holds two entries for one keyword,
\* area_code and cur_page.
C30_Claim ==
  \A r, q \in urlPool :
    (/\ r.keyword = q.keyword
     /\ r.area_code = q.area_code
     /\ r.cur_page = q.cur_page) => r = q

\* C31 (as claimed): when _random_select_url found no unvisited entry and
\* returned "", the process of crawl_single launches no browser, makes no
\* attempt and raises nothing.
C31_Claim ==
  (/\ mode = "crawl"
   /\ call.op = "select"
   /\ call.exc = "none"
   /\ call.url = EmptyUrl) =>
    /\ unit[1].browser = "none"
    /\ unit[1].attempt = 0
    /\ unit[1].leases = << >>
    /\ unit[1].pc # "raised"
    /\ drv # "raised"

\* C32 (as claimed): crawl([]) raises nothing, and no unit of it exists to
\* open a session or fetch.
C32_Claim ==
  (mode = "crawl" /\ tasks = << >>) =>
    /\ drv # "raised"
    /\ \A u \in AllUnits : unit[u].pc = "absent"

\* C33: two units of one chunk of crawl run concurrently on one spider and so
\* on one proxy pool; no interleaving hands one leased endpoint to both.  A
\* call of Proxy.get is one step: the step that hands a unit its endpoint
\* leaves the endpoint out of the pool, and no other unit moves within it.
C33_NoSharedLease ==
  /\ [](mode = "crawl" =>
          \A u, v \in AllUnits :
            u # v =>
              \A i \in DOMAIN unit[u].leases :
                \A j \in DOMAIN unit[v].leases :
                  unit[u].leases[i] # unit[v].leases[j])
  /\ [][mode = "crawl" =>
          \A u \in DOMAIN tasks :
            Len(unit'[u].leases) > Len(unit[u].leases) =>
              /\ Len(unit'[u].leases) = Len(unit[u].leases) + 1
              /\ \A k \in DOMAIN proxies'[0] :
                   proxies'[0][k] # unit'[u].leases[Len(unit'[u].leases)]
              /\ \A k \in DOMAIN proxies[0] :
                   k < Len(proxies[0]) => proxies'[0][k] = proxies[0][k]
              /\ \A v \in DOMAIN tasks : v # u => unit'[v] = unit[v]]_vars

C33_Witness ==
  /\ mode = "crawl"
  /\ drv = "gather"
  /\ \E u, v \in chunk :
       /\ u # v
       /\ unit[u].pc \in {"newpage", "nav"}
       /\ unit[v].pc \in {"newpage", "nav"}
       /\ Len(unit[u].leases) = 2
       /\ Len(unit[v].leases) = 1

\* the rows of the area table that joboss_spider has handed to update_page
Submitted == {u \in DOMAIN tasks : u \in chunk \/ unit[u].pc # "new"}

====
